---------------------------- MODULE Spec2Model ----------------------------
(***************************************************************************)
(* Model of the skill-arena snake simulation: the client tick of           *)
(* src/src/hooks/useGameState.ts and the server gameTick of                *)
(* src/supabase/functions/game-server/index.ts.                            *)
(*                                                                         *)
(* Numbers.  The program computes in IEEE doubles; the model computes in   *)
(* fixed point:                                                            *)
(*   lengths and coordinates   in 1/100 of a world unit  (U == 100)        *)
(*   angles                    in milliradians           (PI == 3142)      *)
(*   scores                    in 1/10 of a point        (0.1 == 1)        *)
(*   boost energy              in 1/10 of a unit                           *)
(*   time                      in milliseconds                             *)
(* A comparison distance(a, b) < c of the code is made on the squares, and *)
(* cos(atan2(dy, dx)) is computed as dx / sqrt(dx^2 + dy^2).               *)
(***************************************************************************)
EXTENDS Integers, Sequences, FiniteSets, TLC

VARIABLES
    engine,         \* "client" (useGameState) or "server" (game-server room)
    status,         \* gameState.status / room.status
    timeRemaining,  \* gameState.timeRemaining / room.timeRemaining, in ms
    snakes,         \* gameState.snakes / room.players (in Map order): Seq of snake records
    food,           \* gameState.food / room.food: Seq of food records
    inputRef,       \* client: inputRef.current
    inputs,         \* server: player.input, by position in room.players
    boostEnergy,    \* client: boostEnergyRef, by position in snakes
    tickCounter,    \* client: tickCounterRef.current
    nextId,         \* source of fresh generateId() values
    newSnakes,      \* the post-movement snapshot of the last tick
    deadSnakes,     \* the last tick's deadSnakes, in insertion order
    kills,          \* the last tick's kills array
    borderHit,      \* the agents the last tick's movement step found outside the arena
    foodLog,        \* the last tick's food bookkeeping (see TickFood)
    ticks,          \* number of ticks taken (bounded by the layout's horizon)
    layout,         \* the initial layout the run started from
    inputsLeft,     \* bound on the number of input events still allowed
    broadcasts,     \* server: the types of the messages broadcast to the room, in order
    evaluated,      \* history: by position in snakes, the moveResult of the bot's most recent
                    \* calculateBotMove call and the tick counter of that call (0: none yet)
    botStateRef,    \* client: botStatesRef entry of the bot under control (BotSpec)
    moveResult,     \* the moveResult of that bot's last calculateBotMove call
    now,            \* Date.now() at that call, in ms since the page was opened
    rooms,          \* server: the rooms Map, room id -> [status, players: player id -> socket]
    connections,    \* server: per socket, its readyState and the room and playerId of its
                    \* handleConnection closure (RoomSpec)
    outbox,         \* server: the lobby messages sent, in order, with their recipients
    roomsCreated    \* server: number of rooms created (source of fresh room ids)

vars == << engine, status, timeRemaining, snakes, food, inputRef, inputs,
           boostEnergy, tickCounter, nextId, newSnakes, deadSnakes, kills,
           borderHit, foodLog, ticks, layout, inputsLeft, broadcasts, evaluated,
           botStateRef, moveResult, now, rooms, connections, outbox, roomsCreated >>

\* the bot controller's state, which only BotSpec follows
botVars == << botStateRef, moveResult, now >>

\* the lobby's state, which only RoomSpec follows
roomVars == << rooms, connections, outbox, roomsCreated >>
NoRooms == rooms = << >> /\ connections = << >> /\ outbox = << >> /\ roomsCreated = 0

---------------------------------------------------------------------------
(* GAME_CONFIG of the two engines *)

U == 100
MAP_WIDTH == 5000 * U
MAP_HEIGHT == 5000 * U
BASE_SPEED(e) == IF e = "client" THEN 354 ELSE 300
BOOST_SPEED(e) == IF e = "client" THEN 708 ELSE 600
BOOST_COST_PER_TICK == 1
INITIAL_LENGTH == 10
SEGMENT_RADIUS == 12 * U
SEGMENT_SPACING == 8 * U
FOOD_SPAWN_RATE(e) == IF e = "client" THEN 236 ELSE 200
MATCH_DURATION == 180 * 1000
TICK_RATE == 20
TURN_RATE == 150
PI == 3142
TWO_PI == 6283
SPAWN_PADDING == 100 * U
FOOD_PICKUP_MARGIN == 10 * U
ScoreUnit == 10

---------------------------------------------------------------------------
(* Arithmetic *)

Abs(a) == IF a < 0 THEN -a ELSE a
Max(a, b) == IF a >= b THEN a ELSE b
Min(a, b) == IF a <= b THEN a ELSE b
Sign(a) == IF a > 0 THEN 1 ELSE IF a < 0 THEN -1 ELSE 0

\* a / b rounded to the nearest integer, b > 0
DivR(a, b) == IF a >= 0 THEN (2 * a + b) \div (2 * b) ELSE -((2 * (-a) + b) \div (2 * b))

RECURSIVE SqrtSearch(_, _, _)
SqrtSearch(n, lo, hi) ==
    IF lo >= hi THEN lo
    ELSE LET mid == (lo + hi + 1) \div 2
         IN  IF mid * mid <= n THEN SqrtSearch(n, mid, hi) ELSE SqrtSearch(n, lo, mid - 1)

\* floor(sqrt(n)) for 0 <= n < 2^31
ISqrt(n) == SqrtSearch(n, 0, Min(n, 46340))

\* Math.floor(score), Math.ceil(a / b)
Floor(score) == score \div ScoreUnit
CeilDiv(a, b) == (a + b - 1) \div b

\* 1000 * sin(a) for 0 <= a <= PI (Bhaskara's rational approximation)
SinHalf(a) == LET p == a * (PI - a) IN (16 * p) \div ((5 * PI * PI - 4 * p) \div 1000)

\* 1000 * Math.sin(a), 1000 * Math.cos(a)
Sin1000(a) ==
    LET r == a % TWO_PI
    IN  IF r <= PI THEN SinHalf(r) ELSE -SinHalf(Min(r - PI, PI))
Cos1000(a) == Sin1000(a + PI \div 2)

\* atan(z / 1000) in milliradians for 0 <= z <= 1000
AtanPoly(z) == DivR(z * (785 + DivR(273 * (1000 - z), 1000)), 1000)

\* Math.atan2(dy, dx) in milliradians; atan2(0, 0) is 0
Atan2(dy, dx) ==
    LET ax == Abs(dx)
        ay == Abs(dy)
        a  == IF ax = 0 /\ ay = 0 THEN 0
              ELSE IF ax >= ay THEN AtanPoly(DivR(1000 * ay, ax) )
              ELSE PI \div 2 - AtanPoly(DivR(1000 * ax, ay))
    IN  IF dx >= 0 THEN (IF dy >= 0 THEN a ELSE -a)
        ELSE (IF dy >= 0 THEN PI - a ELSE a - PI)

---------------------------------------------------------------------------
(* Geometry utilities (gameUtils.ts; the server file repeats them) *)

Point(x, y) == [x |-> x, y |-> y]

\* distance(p1, p2) < c and distance(p1, p2) > c, for a constant 0 < c < 46340
DistLess(p1, p2, c) ==
    LET dx == Abs(p2.x - p1.x)
        dy == Abs(p2.y - p1.y)
    IN  dx < c /\ dy < c /\ dx * dx + dy * dy < c * c
DistMore(p1, p2, c) ==
    LET dx == Abs(p2.x - p1.x)
        dy == Abs(p2.y - p1.y)
    IN  dx > c \/ dy > c \/ dx * dx + dy * dy > c * c

\* 10 * distance(p1, p2), exact to the unit below 40 world units
distance10(p1, p2) ==
    LET dx == Abs(p2.x - p1.x)
        dy == Abs(p2.y - p1.y)
    IN  IF dx < 4000 /\ dy < 4000 THEN ISqrt(100 * (dx * dx + dy * dy))
        ELSE 1000 * ISqrt((dx \div 100) * (dx \div 100) + (dy \div 100) * (dy \div 100))

angleBetween(from, to) == Atan2(to.y - from.y, to.x - from.x)

RECURSIVE normalizeAngle(_)
normalizeAngle(angle) ==
    IF angle > PI THEN normalizeAngle(angle - TWO_PI)
    ELSE IF angle < -PI THEN normalizeAngle(angle + TWO_PI)
    ELSE angle


---------------------------------------------------------------------------
(* Snake and food construction *)

Seg(k) == k + 1     \* position in a TLA+ sequence of the segment of index k

RECURSIVE createSnakeSegmentsFrom(_, _, _)
createSnakeSegmentsFrom(startPos, direction, i) ==
    IF i >= INITIAL_LENGTH THEN << >>
    ELSE << Point(startPos.x - DivR(Cos1000(direction) * i * SEGMENT_SPACING, 1000),
                  startPos.y - DivR(Sin1000(direction) * i * SEGMENT_SPACING, 1000)) >>
         \o createSnakeSegmentsFrom(startPos, direction, i + 1)

createSnakeSegments(startPos, direction) == createSnakeSegmentsFrom(startPos, direction, 0)

\* createSnake with the values getRandomPosition() and Math.random() produced
createSnake(e, id, color, startPos, direction) ==
    [ id         |-> id,
      color      |-> color,
      segments   |-> createSnakeSegments(startPos, direction),
      direction  |-> direction,
      speed      |-> BASE_SPEED(e),
      score      |-> INITIAL_LENGTH * ScoreUnit,
      isBoosting |-> FALSE,
      isAlive    |-> TRUE,
      kills      |-> 0,
      hitBorder  |-> FALSE ]

\* the four value tiers of createFood
FoodTiers == {1, 3, 5, 10}

Food(id, x, y, value, color) == [id |-> id, x |-> x, y |-> y, value |-> value, color |-> color]

---------------------------------------------------------------------------
(* Movement and growth: the per-snake step of the client tick and of gameTick *)

\* variant: the turn is not cut to TURN_RATE
SmoothTurnUncut(direction, targetAngle) ==
    direction + normalizeAngle(targetAngle - direction)

\* smooth turning: the new direction
SmoothTurn(direction, targetAngle) ==
    LET angleDiff == normalizeAngle(targetAngle - direction)
    IN  IF Abs(angleDiff) > TURN_RATE
        THEN direction + Sign(angleDiff) * TURN_RATE
        ELSE direction + angleDiff

MoveHead(head, direction, speed) ==
    Point(head.x + DivR(Cos1000(direction) * speed, 1000),
          head.y + DivR(Sin1000(direction) * speed, 1000))

\* variant: the border test without the segment radius
HitBorderAtEdge(newHead) ==
    \/ newHead.x < 0
    \/ newHead.x > MAP_WIDTH
    \/ newHead.y < 0
    \/ newHead.y > MAP_HEIGHT

HitBorder(newHead) ==
    \/ newHead.x < SEGMENT_RADIUS
    \/ newHead.x > MAP_WIDTH - SEGMENT_RADIUS
    \/ newHead.y < SEGMENT_RADIUS
    \/ newHead.y > MAP_HEIGHT - SEGMENT_RADIUS

ClampToBorder(newHead) ==
    Point(Max(SEGMENT_RADIUS, Min(MAP_WIDTH - SEGMENT_RADIUS, newHead.x)),
          Max(SEGMENT_RADIUS, Min(MAP_HEIGHT - SEGMENT_RADIUS, newHead.y)))

\* variant: a trailing segment stays where it is
FollowSegmentStill(prevSeg, currSeg) == currSeg

\* one trailing segment: pulled to SEGMENT_SPACING from its predecessor when farther
FollowSegment(prevSeg, currSeg) ==
    IF DistMore(prevSeg, currSeg, SEGMENT_SPACING)
    THEN LET d10 == distance10(prevSeg, currSeg)
         IN  Point(prevSeg.x - DivR((prevSeg.x - currSeg.x) * 10 * SEGMENT_SPACING, d10),
                   prevSeg.y - DivR((prevSeg.y - currSeg.y) * 10 * SEGMENT_SPACING, d10))
    ELSE currSeg

\* the new segments lo..hi of the follow-the-leader loop, prevSeg being the new
\* segment lo - 1 (the loop is cut in halves to keep the evaluation shallow)
RECURSIVE FollowRange(_, _, _, _)
FollowRange(prevSeg, segments, lo, hi) ==
    IF lo > hi THEN << >>
    ELSE IF lo = hi THEN << FollowSegment(prevSeg, segments[lo]) >>
    ELSE LET mid   == (lo + hi) \div 2
             front == FollowRange(prevSeg, segments, lo, mid)
         IN  front \o FollowRange(front[Len(front)], segments, mid + 1, hi)

\* update segments (follow the leader)
FollowLeader(newHead, segments) ==
    << newHead >> \o FollowRange(newHead, segments, 2, Len(segments))

\* variant: an if in place of the while, one segment per tick
GrowSegmentsOnce(newSegments, targetLength) ==
    IF Len(newSegments) < targetLength
    THEN Append(newSegments, newSegments[Len(newSegments)])
    ELSE newSegments

\* while (newSegments.length < targetLength) push a copy of the last segment
GrowSegments(newSegments, targetLength) ==
    newSegments \o [n \in 1..(targetLength - Len(newSegments)) |-> newSegments[Len(newSegments)]]

\* while (length > targetLength && length > INITIAL_LENGTH) pop
ShrinkSegments(newSegments, targetLength) ==
    IF Len(newSegments) > targetLength /\ Len(newSegments) > INITIAL_LENGTH
    THEN SubSeq(newSegments, 1, Max(targetLength, INITIAL_LENGTH))
    ELSE newSegments

\* adjust segment count based on score
AdjustLength(newSegments, score) ==
    ShrinkSegments(GrowSegments(newSegments, Floor(score)), Floor(score))

\* variant: the drain without the floor at INITIAL_LENGTH
DrainScoreUnclamped(score, isBoosting) ==
    IF isBoosting THEN score - BOOST_COST_PER_TICK ELSE score

\* boost drain of the movement step
DrainScore(score, isBoosting) ==
    IF isBoosting THEN Max(INITIAL_LENGTH * ScoreUnit, score - BOOST_COST_PER_TICK) ELSE score

\* client: the body of prev.snakes.map for a live snake, its target angle and boost decided
ClientMoveSnake(snake, targetAngle, isBoosting) ==
    LET newDirection == SmoothTurn(snake.direction, targetAngle)
        speed     == IF isBoosting THEN BOOST_SPEED("client") ELSE BASE_SPEED("client")
        newScore  == DrainScore(snake.score, isBoosting)
        movedHead == MoveHead(snake.segments[1], newDirection, speed)
        hitBorder == HitBorder(movedHead)
        newHead   == IF hitBorder THEN ClampToBorder(movedHead) ELSE movedHead
    IN  [ snake EXCEPT
            !.segments   = AdjustLength(FollowLeader(newHead, snake.segments), newScore),
            !.direction  = newDirection,
            !.speed      = speed,
            !.score      = newScore,
            !.isBoosting = isBoosting,
            !.hitBorder  = hitBorder ]

\* server: the body of the first room.players.forEach for a live snake
ServerMoveSnake(snake, input) ==
    LET targetAngle == angleBetween(snake.segments[1], Point(input.targetX, input.targetY))
        direction == SmoothTurn(snake.direction, targetAngle)
        canBoost  == input.isBoosting /\ snake.score > INITIAL_LENGTH * ScoreUnit
        speed     == IF canBoost THEN BOOST_SPEED("server") ELSE BASE_SPEED("server")
        score     == DrainScore(snake.score, canBoost)
        newHead   == MoveHead(snake.segments[1], direction, speed)
        turned    == [ snake EXCEPT !.direction = direction, !.speed = speed,
                                    !.isBoosting = canBoost, !.score = score ]
    IN  IF HitBorder(newHead) THEN turned
        ELSE [ turned EXCEPT
                 !.segments = AdjustLength(FollowLeader(newHead, snake.segments), score) ]

\* server: whether the movement step puts the snake in deadSnakes
ServerHitsBorder(snake, input) ==
    LET targetAngle == angleBetween(snake.segments[1], Point(input.targetX, input.targetY))
        direction == SmoothTurn(snake.direction, targetAngle)
        canBoost  == input.isBoosting /\ snake.score > INITIAL_LENGTH * ScoreUnit
        speed     == IF canBoost THEN BOOST_SPEED("server") ELSE BASE_SPEED("server")
    IN  HitBorder(MoveHead(snake.segments[1], direction, speed))

---------------------------------------------------------------------------
(* Collision detection *)

\* a JavaScript Set in insertion order, as a sequence without repetition
Has(set, x) == \E k \in 1..Len(set) : set[k] = x
Add(set, x) == IF Has(set, x) THEN set ELSE Append(set, x)

\* position in the list of the snake with the given id (ids are unique), 0 if none
RECURSIVE FindFrom(_, _, _)
FindFrom(list, id, k) ==
    IF k > Len(list) THEN 0
    ELSE IF list[k].id = id THEN k
    ELSE FindFrom(list, id, k + 1)
Find(list, id) == FindFrom(list, id, 1)

\* (head.radius + segment.radius) * 0.85
ClientCollisionDist == (2 * SEGMENT_RADIUS * 85) \div 100
\* head.radius + segment.radius
ServerCollisionDist == 2 * SEGMENT_RADIUS

\* client checkSnakeCollision: the loop over the checked segments
ClientSegmentHit(head, segments, startIndex, step) ==
    \E i \in startIndex..(Len(segments) - 1) :
        /\ (i - startIndex) % step = 0
        /\ DistLess(head, segments[Seg(i)], ClientCollisionDist)

\* client checkSnakeCollision: the bounding quick-reject
QuickReject(head, otherSnake) ==
    LET otherHead == otherSnake.segments[1]
        roughDist == Abs(head.x - otherHead.x) + Abs(head.y - otherHead.y)
        maxLength == Len(otherSnake.segments) * SEGMENT_SPACING
    IN  roughDist > maxLength + 100 * U

ClientCheckSnakeCollision(head, otherSnake, isSelf) ==
    IF ~isSelf /\ QuickReject(head, otherSnake) THEN FALSE
    ELSE ClientSegmentHit(head, otherSnake.segments,
                          IF isSelf THEN 25 ELSE 1, IF isSelf THEN 1 ELSE 2)

\* server checkSnakeCollision
ServerSegmentHit(head, segments, startIndex) ==
    \E i \in startIndex..(Len(segments) - 1) :
        DistLess(head, segments[Seg(i)], ServerCollisionDist)

ServerCheckSnakeCollision(head, otherSnake, skipHead) ==
    ServerSegmentHit(head, otherSnake.segments, IF skipHead THEN 3 ELSE 0)

(* Spatial hash *)
SPATIAL_CELL_SIZE == 200 * U
\* variant: only the head of a snake is indexed
HashStrideHeadOnly == 100 * INITIAL_LENGTH
HashStride == 5

getCellKey(x, y) == << x \div SPATIAL_CELL_SIZE, y \div SPATIAL_CELL_SIZE >>

\* buildSpatialHash: whether the snake is entered in the cell of this key
Indexed(snake, key) ==
    /\ snake.isAlive
    /\ \E i \in 0..(Len(snake.segments) - 1) :
          /\ i % HashStride = 0
          /\ getCellKey(snake.segments[Seg(i)].x, snake.segments[Seg(i)].y) = key

\* hash.cells.get(key), in the order the ids were added
RECURSIVE CellIds(_, _, _)
CellIds(list, key, k) ==
    IF k > Len(list) THEN << >>
    ELSE (IF Indexed(list[k], key) THEN << list[k].id >> ELSE << >>)
         \o CellIds(list, key, k + 1)

\* getNearbySnakeIds: the 5 x 5 cells around (x, y), dx outer, dy inner
RECURSIVE NearbyFrom(_, _, _, _, _)
NearbyFrom(list, x, y, c, nearby) ==
    IF c >= 25 THEN nearby
    ELSE LET dx  == (c \div 5) - 2
             dy  == (c % 5) - 2
             ids == CellIds(list, getCellKey(x + dx * SPATIAL_CELL_SIZE,
                                            y + dy * SPATIAL_CELL_SIZE), 1)
             RECURSIVE AddAll(_, _, _)
             AddAll(set, seq, k) ==
                 IF k > Len(seq) THEN set ELSE AddAll(Add(set, seq[k]), seq, k + 1)
         IN  NearbyFrom(list, x, y, c + 1, AddAll(nearby, ids, 1))
getNearbySnakeIds(list, x, y) == NearbyFrom(list, x, y, 0, << >>)

(* Client: the passes of the tick over the post-movement snapshot *)

\* first pass: snakes that hit the border
RECURSIVE ClientBorderPass(_, _, _)
ClientBorderPass(list, k, dead) ==
    IF k > Len(list) THEN dead
    ELSE ClientBorderPass(list, k + 1,
            IF list[k].isAlive /\ list[k].hitBorder THEN Add(dead, list[k].id) ELSE dead)

PairKey(a, b) == {a, b}

\* variant: the kill is credited to the smaller snake and the bigger one dies
HeadToHeadPairBiggerDies(snake1, snake2, acc) ==
    IF ~DistLess(snake1.segments[1], snake2.segments[1], ClientCollisionDist) THEN acc
    ELSE IF 10 * Abs(snake1.score - snake2.score) < Max(snake1.score, snake2.score)
    THEN [acc EXCEPT !.dead = Add(Add(acc.dead, snake1.id), snake2.id)]
    ELSE LET smallerId == IF snake1.score < snake2.score THEN snake1.id ELSE snake2.id
             biggerId  == IF snake1.score >= snake2.score THEN snake1.id ELSE snake2.id
         IN  [acc EXCEPT !.dead = Add(acc.dead, biggerId),
                         !.kills = Append(acc.kills, [killerId |-> smallerId,
                                                      victimId |-> biggerId])]

\* head-to-head: one pair, not processed before
HeadToHeadPair(snake1, snake2, acc) ==
    IF ~DistLess(snake1.segments[1], snake2.segments[1], ClientCollisionDist) THEN acc
    ELSE IF 10 * Abs(snake1.score - snake2.score) < Max(snake1.score, snake2.score)
    THEN [acc EXCEPT !.dead = Add(Add(acc.dead, snake1.id), snake2.id)]
    ELSE LET smallerId == IF snake1.score < snake2.score THEN snake1.id ELSE snake2.id
             biggerId  == IF snake1.score >= snake2.score THEN snake1.id ELSE snake2.id
         IN  [acc EXCEPT !.dead = Add(acc.dead, smallerId),
                         !.kills = Append(acc.kills, [killerId |-> biggerId,
                                                      victimId |-> smallerId])]

\* head-to-head: the inner loop of one snake over the others
RECURSIVE HeadToHeadInner(_, _, _, _)
HeadToHeadInner(list, i, j, acc) ==
    IF j > Len(list) THEN acc
    ELSE IF list[j].id = list[i].id \/ ~list[j].isAlive \/ Has(acc.dead, list[j].id)
    THEN HeadToHeadInner(list, i, j + 1, acc)
    ELSE IF PairKey(list[i].id, list[j].id) \in acc.pairs
    THEN HeadToHeadInner(list, i, j + 1, acc)
    ELSE HeadToHeadInner(list, i, j + 1,
            HeadToHeadPair(list[i], list[j],
                [acc EXCEPT !.pairs = acc.pairs \cup {PairKey(list[i].id, list[j].id)}]))

RECURSIVE HeadToHeadPass(_, _, _)
HeadToHeadPass(list, i, acc) ==
    IF i > Len(list) THEN acc
    ELSE IF ~list[i].isAlive \/ Has(acc.dead, list[i].id)
    THEN HeadToHeadPass(list, i + 1, acc)
    ELSE HeadToHeadPass(list, i + 1, HeadToHeadInner(list, i, 1, acc))

\* head-to-body: the loop of one snake over the nearby ids; stops at the first hit
RECURSIVE HeadToBodyInner(_, _, _, _, _)
HeadToBodyInner(list, i, nearbyIds, n, acc) ==
    IF n > Len(nearbyIds) THEN acc
    ELSE LET otherId == nearbyIds[n]
             o == Find(list, otherId)
         IN  IF otherId = list[i].id \/ o = 0 THEN HeadToBodyInner(list, i, nearbyIds, n + 1, acc)
             ELSE IF ~list[o].isAlive \/ Has(acc.dead, otherId)
             THEN HeadToBodyInner(list, i, nearbyIds, n + 1, acc)
             ELSE IF ClientCheckSnakeCollision(list[i].segments[1], list[o], FALSE)
             THEN [acc EXCEPT !.dead = Add(acc.dead, list[i].id),
                              !.kills = Append(acc.kills, [killerId |-> otherId,
                                                           victimId |-> list[i].id])]
             ELSE HeadToBodyInner(list, i, nearbyIds, n + 1, acc)

RECURSIVE HeadToBodyPass(_, _, _)
HeadToBodyPass(list, i, acc) ==
    IF i > Len(list) THEN acc
    ELSE IF ~list[i].isAlive \/ Has(acc.dead, list[i].id)
    THEN HeadToBodyPass(list, i + 1, acc)
    ELSE HeadToBodyPass(list, i + 1,
            HeadToBodyInner(list, i,
                getNearbySnakeIds(list, list[i].segments[1].x, list[i].segments[1].y), 1, acc))

\* the collision phase of the client tick: deadSnakes and kills
ClientCollisions(list) ==
    HeadToBodyPass(list, 1,
        HeadToHeadPass(list, 1,
            [dead |-> ClientBorderPass(list, 1, << >>), kills |-> << >>, pairs |-> {}]))

(* Server: the collision loop of gameTick *)

\* the inner forEach of one player over the others: every hit is recorded
RECURSIVE ServerInner(_, _, _, _)
ServerInner(list, i, j, acc) ==
    IF j > Len(list) THEN acc
    ELSE IF j = i \/ ~list[j].isAlive \/ Has(acc.dead, list[j].id)
    THEN ServerInner(list, i, j + 1, acc)
    ELSE IF ServerCheckSnakeCollision(list[i].segments[1], list[j], FALSE)
    THEN ServerInner(list, i, j + 1,
            [acc EXCEPT !.dead = Add(acc.dead, list[i].id),
                        !.kills = Append(acc.kills, [killerId |-> list[j].id,
                                                     victimId |-> list[i].id,
                                                     points   |-> list[i].score])])
    ELSE ServerInner(list, i, j + 1, acc)

\* the self-collision check of one player
ServerSelfCollision(snake) ==
    Len(snake.segments) > 20 /\ ServerCheckSnakeCollision(snake.segments[1], snake, TRUE)

RECURSIVE ServerCollisionPass(_, _, _)
ServerCollisionPass(list, i, acc) ==
    IF i > Len(list) THEN acc
    ELSE IF ~list[i].isAlive \/ Has(acc.dead, list[i].id)
    THEN ServerCollisionPass(list, i + 1, acc)
    ELSE LET hit == ServerInner(list, i, 1, acc)
         IN  ServerCollisionPass(list, i + 1,
                IF ServerSelfCollision(list[i])
                THEN [hit EXCEPT !.dead = Add(hit.dead, list[i].id)]
                ELSE hit)

\* the collision phase of gameTick, deadSnakes holding the border deaths already
ServerCollisions(list, borderDead) ==
    ServerCollisionPass(list, 1, [dead |-> borderDead, kills |-> << >>])

---------------------------------------------------------------------------
(* Deaths, kills and food *)

\* client: points gained from the kills of one snake
RECURSIVE PointsGained(_, _, _, _)
PointsGained(list, killList, id, k) ==
    IF k > Len(killList) THEN 0
    ELSE (IF killList[k].killerId = id /\ Find(list, killList[k].victimId) # 0
          THEN list[Find(list, killList[k].victimId)].score ELSE 0)
         + PointsGained(list, killList, id, k + 1)

KillCount(killList, id) == Cardinality({k \in 1..Len(killList) : killList[k].killerId = id})

\* client: apply deaths and kills (updatedSnakes)
ClientApplyDeaths(list, dead, killList) ==
    [k \in 1..Len(list) |->
        IF Has(dead, list[k].id) THEN [list[k] EXCEPT !.isAlive = FALSE]
        ELSE [list[k] EXCEPT !.kills = @ + KillCount(killList, list[k].id),
                             !.score = @ + PointsGained(list, killList, list[k].id, 1)]]

\* server: apply deaths, then award every kill to its killer
RECURSIVE ServerAwardKills(_, _, _)
ServerAwardKills(list, killList, k) ==
    IF k > Len(killList) THEN list
    ELSE LET i == Find(list, killList[k].killerId)
         IN  ServerAwardKills(
                IF i = 0 THEN list
                ELSE [list EXCEPT ![i].kills = @ + 1, ![i].score = @ + killList[k].points],
                killList, k + 1)

ServerApplyDeaths(list, dead, killList) ==
    ServerAwardKills([k \in 1..Len(list) |->
                        IF Has(dead, list[k].id) THEN [list[k] EXCEPT !.isAlive = FALSE]
                        ELSE list[k]],
                     killList, 1)

\* value of the food a dead snake drops
ClientDropValue(deadSnake) == CeilDiv(deadSnake.score, ScoreUnit * Len(deadSnake.segments))
ServerDropValue == 2

DropValue(e, deadSnake) == IF e = "client" THEN ClientDropValue(deadSnake) ELSE ServerDropValue

\* variant: one item for every full group of three segments
DropsOfFullGroups(e, deadSnake, id, jitter) ==
    [n \in 1..(Len(deadSnake.segments) \div 3) |->
        Food(id + n - 1,
             deadSnake.segments[Seg(3 * (n - 1))].x + jitter[1],
             deadSnake.segments[Seg(3 * (n - 1))].y + jitter[2],
             IF e = "client"
             THEN CeilDiv(deadSnake.score, ScoreUnit * Len(deadSnake.segments)) ELSE 2,
             deadSnake.color)]

\* the food one dead snake drops: every third segment, ids from id on
DropStride == 3
DropsOf(e, deadSnake, id, jitter) ==
    [n \in 1..CeilDiv(Len(deadSnake.segments), DropStride) |->
        Food(id + n - 1,
             deadSnake.segments[Seg(DropStride * (n - 1))].x + jitter[1],
             deadSnake.segments[Seg(DropStride * (n - 1))].y + jitter[2],
             DropValue(e, deadSnake), deadSnake.color)]

\* the food list with the drops of all dead snakes appended, in deadSnakes order
RECURSIVE SpawnDrops(_, _, _, _, _, _, _)
SpawnDrops(e, foodList, list, dead, k, id, jitter) ==
    IF k > Len(dead) THEN foodList
    ELSE LET i == Find(list, dead[k])
             drops == IF i = 0 THEN << >> ELSE DropsOf(e, list[i], id, jitter)
         IN  SpawnDrops(e, foodList \o drops, list, dead, k + 1, id + Len(drops), jitter)

\* head.radius + 10
PickupDist == SEGMENT_RADIUS + FOOD_PICKUP_MARGIN

\* variant: the last live snake in pickup range takes the item
RECURSIVE CollectorLast(_, _, _)
CollectorLast(list, item, k) ==
    IF k > Len(list) THEN 0
    ELSE LET later == CollectorLast(list, item, k + 1)
         IN  IF later # 0 THEN later
             ELSE IF list[k].isAlive /\ DistLess(list[k].segments[1], item, PickupDist)
             THEN k ELSE 0

\* the first live snake whose head is in pickup range of the item, 0 if none
RECURSIVE Collector(_, _, _)
Collector(list, item, k) ==
    IF k > Len(list) THEN 0
    ELSE IF list[k].isAlive /\ DistLess(list[k].segments[1], item, PickupDist)
    THEN k
    ELSE Collector(list, item, k + 1)

\* sum of the values of the items lo..hi collected by the snake at position c
RECURSIVE CollectedValue(_, _, _, _, _)
CollectedValue(who, foodList, c, lo, hi) ==
    IF lo > hi THEN 0
    ELSE IF lo = hi THEN (IF who[lo] = c THEN foodList[lo].value ELSE 0)
    ELSE CollectedValue(who, foodList, c, lo, (lo + hi) \div 2)
         + CollectedValue(who, foodList, c, (lo + hi) \div 2 + 1, hi)

\* the items lo..hi that no snake collected, in order
RECURSIVE Uncollected(_, _, _, _)
Uncollected(who, foodList, lo, hi) ==
    IF lo > hi THEN << >>
    ELSE IF lo = hi THEN (IF who[lo] = 0 THEN << foodList[lo] >> ELSE << >>)
    ELSE Uncollected(who, foodList, lo, (lo + hi) \div 2)
         \o Uncollected(who, foodList, (lo + hi) \div 2 + 1, hi)

\* food collection: the items left and the value each snake collected
FoodCollection(list, foodList) ==
    LET who == [k \in 1..Len(foodList) |-> Collector(list, foodList[k], 1)]
    IN  [ who  |-> who,
          left |-> Uncollected(who, foodList, 1, Len(foodList)),
          gain |-> [c \in 1..Len(list) |-> CollectedValue(who, foodList, c, 1, Len(foodList))] ]

ApplyFoodCollections(list, gain) ==
    [k \in 1..Len(list) |-> [list[k] EXCEPT !.score = @ + gain[k] * ScoreUnit]]

\* variant: the loop stops one item short of the target
SpawnNewFoodShort(e, foodList, id, spawn) ==
    foodList \o [n \in 1..(FOOD_SPAWN_RATE(e) - 1 - Len(foodList)) |->
                    Food(id + n - 1, spawn.x, spawn.y, spawn.value, spawn.color)]

\* variant: the population is cut back to the target when above it
SpawnNewFoodExact(e, foodList, id, spawn) ==
    IF Len(foodList) > FOOD_SPAWN_RATE(e) THEN SubSeq(foodList, 1, FOOD_SPAWN_RATE(e))
    ELSE foodList \o [n \in 1..(FOOD_SPAWN_RATE(e) - Len(foodList)) |->
                         Food(id + n - 1, spawn.x, spawn.y, spawn.value, spawn.color)]

\* spawn new food to maintain count; spawn is what createFood() produced
SpawnNewFood(e, foodList, id, spawn) ==
    foodList \o [n \in 1..(FOOD_SPAWN_RATE(e) - Len(foodList)) |->
                    Food(id + n - 1, spawn.x, spawn.y, spawn.value, spawn.color)]

\* the food phase of a tick (both engines): drops, pickups, top-up
TickFood(e, foodList, moved, applied, dead, id, jitter, spawn) ==
    LET dropped   == SpawnDrops(e, foodList, moved, dead, 1, id, jitter)
        collected == FoodCollection(applied, dropped)
        final     == SpawnNewFood(e, collected.left, id + Len(dropped) - Len(foodList), spawn)
    IN  [ food   |-> final,
          snakes |-> ApplyFoodCollections(applied, collected.gain),
          nextId |-> id + (Len(dropped) - Len(foodList)) + (Len(final) - Len(collected.left)),
          log    |-> [ before  |-> Len(foodList),
                       dropped |-> Len(dropped) - Len(foodList),
                       offered |-> dropped,
                       who     |-> collected.who,
                       left    |-> [k \in 1..Len(collected.left) |-> collected.left[k].id],
                       spawned |-> Len(final) - Len(collected.left),
                       gain    |-> collected.gain ] ]

---------------------------------------------------------------------------
(* Bounds of the model *)

ShortHorizon == 3       \* ticks explored from a layout in which agents meet
BorderHorizon == 16     \* ticks explored from a layout next to the wall
LoopHorizon == 38       \* ticks explored from a layout in which a snake turns back on itself
BoostHorizon == 103     \* ticks explored from a layout in which the player boosts throughout
MaxInputs == 1          \* input events explored per run

(* Initial layouts: what getRandomPosition() and Math.random() produced for   *)
(* the snakes and the initial food, and the inputs the run may receive.      *)
(* A layout lists the snakes of the match that meet; the others of the match *)
(* are out of reach of them within the horizon and are left out.             *)

playerId == 1

\* the frame time accumulated when the client tick runs, in ms: at least 1000 / 60,
\* and each frame adds 50 at most
ClientDeltas == { 17, 50 }

Input(x, y, b) == [targetX |-> x, targetY |-> y, isBoosting |-> b]
Spawn(x, y, d, c) == [x |-> x, y |-> y, direction |-> d, color |-> c]
Pile(x, y, v, n) == [x |-> x, y |-> y, value |-> v, count |-> n]

\* three snakes whose heads meet on the second tick: A and B head-on, C from the side
TrioSpawns ==
    << Spawn(250000, 250000, 0, "#00ffff"),
       Spawn(253416, 250000, PI, "#ff00ff"),
       Spawn(249708, 247592, PI \div 2, "#00ff00") >>
DuoSpawns == SubSeq(TrioSpawns, 1, 2)

\* three snakes side by side on the server, A and C heading east and B 0.2 rad off:
\* the head of A beside the body of C, and the head of C beside the body of B
ChainSpawns ==
    << Spawn(246000, 252000, 0, "#00ffff"),
       Spawn(253920, 248795, 200, "#ff00ff"),
       Spawn(250000, 250000, 0, "#00ff00") >>

\* value-10 food under the first steps of A, B and C
TrioPiles(a, b, c) ==
    << Pile(251354, 250000, 10, a), Pile(253416, 250000, 10, b), Pile(249708, 247592, 10, c) >>

EastInputs == { Input(500000, 250000, FALSE), Input(500000, 250000, TRUE) }

\* one snake at the spawn padding, heading for the west wall, food under its first step
WallSpawns == << Spawn(SPAWN_PADDING, 250000, PI, "#00ffff") >>
WallPiles == << Pile(SPAWN_PADDING, 250000, 10, 1) >>
WestInputs == { Input(0, 250000, TRUE) }

\* one snake that eats its way to a long body and is then steered
SoloSpawns == SubSeq(TrioSpawns, 1, 1)
SoloPiles(n) == << Pile(251354, 250000, 10, n) >>
NorthInputs == { Input(250000, 0, FALSE) }
TailInputs == { Input(242800, 250000, FALSE) }

\* createFood(): the position, tier and colour drawn, one draw for the tick
FarSpawn == [x |-> 400000, y |-> 400000, value |-> 3, color |-> "#00ff88"]
NearSpawn == [x |-> 250708, y |-> 250000, value |-> 10, color |-> "#ff00ff"]
SpawnChoices == { FarSpawn, NearSpawn }

Layout(e, spawns, piles, ins, sp, h) ==
    [engine |-> e, spawns |-> spawns, piles |-> piles, inputSet |-> ins,
     spawnSet |-> sp, horizon |-> h,
     held |-> Input(0, 0, FALSE), clock |-> MATCH_DURATION, deltas |-> {17}]

\* the same layout with the player's input given before the first tick
Holding(L, in) == [L EXCEPT !.held = in]

\* the same layout met with ms left on the clock; the client's frames then come
\* at 60 Hz or at the 50 ms cap
Closing(L, ms) == [L EXCEPT !.clock = ms, !.deltas = ClientDeltas]

Layouts ==
    << Layout("client", TrioSpawns, TrioPiles(0, 0, 0), EastInputs, SpawnChoices, ShortHorizon),
       Layout("client", TrioSpawns, TrioPiles(0, 1, 1), EastInputs, SpawnChoices, ShortHorizon),
       Layout("client", TrioSpawns, TrioPiles(1, 2, 0), EastInputs, SpawnChoices, ShortHorizon),
       Layout("client", DuoSpawns, TrioPiles(9, 1, 0), EastInputs, SpawnChoices, ShortHorizon),
       Layout("client", DuoSpawns, TrioPiles(0, 0, 0), EastInputs, SpawnChoices, ShortHorizon),
       Layout("server", TrioSpawns, TrioPiles(0, 1, 1), EastInputs, SpawnChoices, ShortHorizon),
       Layout("server", DuoSpawns, TrioPiles(9, 1, 0), EastInputs, SpawnChoices, ShortHorizon),
       Layout("client", WallSpawns, WallPiles, WestInputs, {FarSpawn}, BorderHorizon),
       Layout("server", WallSpawns, WallPiles, WestInputs, {FarSpawn}, BorderHorizon),
       Layout("server", SoloSpawns, SoloPiles(2), NorthInputs, SpawnChoices, ShortHorizon),
       Layout("client", SoloSpawns, SoloPiles(9), TailInputs, {FarSpawn}, LoopHorizon),
       Holding(Layout("client", SoloSpawns, SoloPiles(2), {}, {FarSpawn}, BoostHorizon),
               Input(500000, 250000, TRUE)),
       Closing(Layout("client", TrioSpawns, TrioPiles(0, 1, 1), EastInputs, SpawnChoices,
                      ShortHorizon), 50),
       Closing(Layout("server", TrioSpawns, TrioPiles(0, 1, 1), EastInputs, SpawnChoices,
                      ShortHorizon + 1), 150),
       Layout("server", ChainSpawns, TrioPiles(0, 0, 0), EastInputs, {FarSpawn}, ShortHorizon) >>

RECURSIVE PileFood(_, _, _)
PileFood(piles, k, id) ==
    IF k > Len(piles) THEN << >>
    ELSE [n \in 1..piles[k].count |->
             Food(id + n - 1, piles[k].x, piles[k].y, piles[k].value, "#ff00ff")]
         \o PileFood(piles, k + 1, id + piles[k].count)

\* the rest of the initial food: a row along the far side of the arena
TierOf(k) == IF k % 4 = 0 THEN 1 ELSE IF k % 4 = 1 THEN 3 ELSE IF k % 4 = 2 THEN 5 ELSE 10
TierColor(v) == IF v = 1 THEN "#00ffff" ELSE IF v = 3 THEN "#00ff88"
                ELSE IF v = 5 THEN "#ffff00" ELSE "#ff00ff"
FillerFood(from, to) ==
    [n \in 1..(to - from + 1) |->
        Food(from + n - 1, SPAWN_PADDING + 2000 * (from + n - 1), MAP_HEIGHT - SPAWN_PADDING,
             TierOf(from + n), TierColor(TierOf(from + n)))]

InitialFood(e, piles) ==
    LET piled == PileFood(piles, 1, 1)
    IN  piled \o FillerFood(Len(piled) + 1, FOOD_SPAWN_RATE(e))

InitialSnakes(e, spawns) ==
    [k \in 1..Len(spawns) |->
        createSnake(e, k, spawns[k].color, Point(spawns[k].x, spawns[k].y), spawns[k].direction)]

NotEvaluated == [targetAngle |-> 0, shouldBoost |-> FALSE, at |-> 0]

\* the record of the evaluations after a tick in which botMoves were computed
Evaluations(before, botMoves, counter) ==
    [k \in DOMAIN before |->
        IF k \in DOMAIN botMoves
        THEN [targetAngle |-> botMoves[k].targetAngle,
              shouldBoost |-> botMoves[k].shouldBoost, at |-> counter]
        ELSE before[k]]

EmptyLog(foodList, n) ==
    [ before |-> Len(foodList), dropped |-> 0,
      offered |-> foodList, who |-> [k \in 1..Len(foodList) |-> 0],
      left |-> [k \in 1..Len(foodList) |-> foodList[k].id],
      spawned |-> 0, gain |-> [k \in 1..n |-> 0] ]

Setup(burst) ==
    \E l \in 1..Len(Layouts) :
        LET L == Layouts[l]
            initialSnakes == InitialSnakes(L.engine, L.spawns)
            initialFood == InitialFood(L.engine, L.piles)
        IN  /\ layout = l
            /\ engine = L.engine
            /\ status = "playing"
            /\ timeRemaining = L.clock
            /\ snakes = initialSnakes
            /\ food = initialFood
            /\ inputRef = L.held
            /\ inputs = [k \in 1..Len(initialSnakes) |->
                            Input(initialSnakes[k].segments[1].x,
                                  initialSnakes[k].segments[1].y, FALSE)]
            /\ boostEnergy = [k \in 1..Len(initialSnakes) |-> 500]
            /\ tickCounter = 0
            /\ nextId = Len(initialFood) + 1
            /\ newSnakes = initialSnakes
            /\ deadSnakes = << >>
            /\ kills = << >>
            /\ borderHit = << >>
            /\ foodLog = EmptyLog(initialFood, Len(initialSnakes))
            /\ ticks = 0
            /\ inputsLeft = burst
            /\ broadcasts = << >>
            /\ evaluated = [k \in 1..Len(initialSnakes) |-> NotEvaluated]
            /\ NoRooms
            /\ botStateRef = << >>
            /\ moveResult = << >>
            /\ now = 0

Init == Setup(MaxInputs)

---------------------------------------------------------------------------
(* Random outcomes a tick may draw *)

\* the jitter (Math.random() - 0.5) * 20 of dropped food, one draw for the tick
Jitters == { << 0, 0 >>, << -1000, 999 >> }

\* calculateBotMove, as far as the tick depends on it: a target angle and a boost
\* request, the latter only with boost energy above the lowest threshold it tests
BotTurns == { 0, PI \div 2 }
calculateBotMove(bot, energy) ==
    { [targetAngle |-> bot.direction + t, shouldBoost |-> b] :
        t \in BotTurns, b \in (IF energy > 300 THEN BOOLEAN ELSE {FALSE}) }

---------------------------------------------------------------------------
(* Client: the decisions of the tick for each snake *)

\* botIndex of the snake at position k: live bots before it in the list
BotIndex(list, k) ==
    Cardinality({j \in 1..(k - 1) : list[j].isAlive /\ list[j].id # playerId})

shouldUpdateBotAI(list, k, counter) == BotIndex(list, k) % 6 = counter % 6

EvaluatingBots(list, counter) ==
    {k \in 1..Len(list) : list[k].isAlive /\ list[k].id # playerId
                          /\ shouldUpdateBotAI(list, k, counter)}

\* variant: the boost needs twice the initial length
PlayerBoostsAboveDouble(snake, energy, in) ==
    in.isBoosting /\ energy > 0 /\ snake.score > 2 * INITIAL_LENGTH * ScoreUnit

\* the player's boost decision
PlayerBoosts(snake, energy, in) ==
    in.isBoosting /\ energy > 0 /\ snake.score > INITIAL_LENGTH * ScoreUnit

\* targetAngle and isBoosting of the snake at position k
ClientTargetAngle(list, k, in, botMoves) ==
    IF list[k].id = playerId
    THEN angleBetween(list[k].segments[1], Point(in.targetX, in.targetY))
    ELSE IF k \in DOMAIN botMoves THEN botMoves[k].targetAngle
    ELSE list[k].direction

ClientIsBoosting(list, k, energy, in, botMoves) ==
    IF list[k].id = playerId THEN PlayerBoosts(list[k], energy[k], in)
    ELSE IF k \in DOMAIN botMoves THEN botMoves[k].shouldBoost
    ELSE list[k].isBoosting

\* boostEnergyRef after the tick
ClientBoostEnergy(list, energy, in, botMoves) ==
    [k \in 1..Len(list) |->
        IF ~list[k].isAlive THEN energy[k]
        ELSE IF ClientIsBoosting(list, k, energy, in, botMoves) /\ energy[k] > 0
        THEN Max(0, energy[k] - 5)
        ELSE Min(1000, energy[k] + 1)]

\* variant: the movement step without the early return for dead snakes
ClientMoveAll(list, energy, in, botMoves) ==
    [k \in 1..Len(list) |->
        ClientMoveSnake(list[k], ClientTargetAngle(list, k, in, botMoves),
                        ClientIsBoosting(list, k, energy, in, botMoves))]

\* newSnakes: the post-movement snapshot
ClientMove(list, energy, in, botMoves) ==
    [k \in 1..Len(list) |->
        IF ~list[k].isAlive THEN list[k]
        ELSE ClientMoveSnake(list[k], ClientTargetAngle(list, k, in, botMoves),
                             ClientIsBoosting(list, k, energy, in, botMoves))]

ServerMove(list, ins) ==
    [k \in 1..Len(list) |->
        IF ~list[k].isAlive THEN list[k] ELSE ServerMoveSnake(list[k], ins[k])]

RECURSIVE ServerBorderDead(_, _, _)
ServerBorderDead(list, ins, k) ==
    IF k > Len(list) THEN << >>
    ELSE (IF list[k].isAlive /\ ServerHitsBorder(list[k], ins[k]) THEN << list[k].id >> ELSE << >>)
         \o ServerBorderDead(list, ins, k + 1)

---------------------------------------------------------------------------
(* Actions *)

\* variant: the client's clock held above zero
ClientClockAboveZero(remaining, delta) == Max(1, remaining - delta)

\* the time left after a tick
ClientClock(remaining, delta) == Max(0, remaining - delta)
ServerClock(remaining) == remaining - 1000 \div TICK_RATE

\* variant: the tick runs whatever the status
PlayingOrNot(s) == TRUE

\* the status guard at the head of both ticks
Playing(s) == s = "playing"

\* variant: an input message that lands in every player's slot
WriteInputOfAll(slots, k, in) == [j \in DOMAIN slots |-> in]

\* player.input = {...} on the connection's own player
WriteInput(slots, k, in) == [slots EXCEPT ![k] = in]

\* handlePlayerInput(targetX, targetY, isBoosting)
HandlePlayerInput ==
    /\ engine = "client"
    /\ inputsLeft > 0
    /\ \E in \in Layouts[layout].inputSet :
          /\ inputRef' = in
          /\ inputsLeft' = inputsLeft - 1
    /\ UNCHANGED << engine, status, timeRemaining, snakes, food, inputs, boostEnergy,
                    tickCounter, nextId, newSnakes, deadSnakes, kills, borderHit,
                    foodLog, ticks, layout >>
    /\ UNCHANGED << broadcasts, evaluated, botVars, roomVars >>

\* socket.onmessage, case 'input', on the connection of the player at position k
ServerInput ==
    /\ engine = "server"
    /\ inputsLeft > 0
    /\ \E k \in 1..Len(snakes), in \in Layouts[layout].inputSet :
          /\ inputs' = WriteInput(inputs, k, in)
          /\ inputsLeft' = inputsLeft - 1
    /\ UNCHANGED << engine, status, timeRemaining, snakes, food, inputRef, boostEnergy,
                    tickCounter, nextId, newSnakes, deadSnakes, kills, borderHit,
                    foodLog, ticks, layout >>
    /\ UNCHANGED << broadcasts, evaluated, botVars, roomVars >>

\* one run of tick() that updates the game (accumulator >= TICK_RATE)
ClientTick ==
    /\ engine = "client"
    /\ Playing(status)
    /\ ticks < Layouts[layout].horizon
    /\ ticks' = ticks + 1
    /\ tickCounter' = tickCounter + 1
    /\ \E delta \in Layouts[layout].deltas :
        LET newTimeRemaining == ClientClock(timeRemaining, delta)
        IN  IF newTimeRemaining <= 0
            THEN /\ timeRemaining' = 0
                 /\ status' = "ended"
                 /\ UNCHANGED << snakes, food, boostEnergy, nextId, newSnakes, deadSnakes,
                                 kills, borderHit, foodLog, evaluated >>
            ELSE \E botMoves \in
                     { f \in [EvaluatingBots(snakes, tickCounter') ->
                                UNION { calculateBotMove(snakes[k], boostEnergy[k]) :
                                          k \in EvaluatingBots(snakes, tickCounter') }] :
                         \A k \in DOMAIN f : f[k] \in calculateBotMove(snakes[k], boostEnergy[k]) } :
                 \E moved \in { ClientMove(snakes, boostEnergy, inputRef, botMoves) } :
                 \E hits \in { ClientCollisions(moved) } :
                 \E applied \in { ClientApplyDeaths(moved, hits.dead, hits.kills) } :
                 \E jitter \in (IF hits.dead = << >> THEN {<< 0, 0 >>} ELSE Jitters),
                    spawn \in Layouts[layout].spawnSet :
                        \E fed \in { TickFood("client", food, moved, applied, hits.dead,
                                              nextId, jitter, spawn) } :
                            /\ timeRemaining' = newTimeRemaining
                            /\ status' = status
                            /\ snakes' = fed.snakes
                            /\ food' = fed.food
                            /\ nextId' = fed.nextId
                            /\ foodLog' = fed.log
                            /\ boostEnergy' = ClientBoostEnergy(snakes, boostEnergy,
                                                                inputRef, botMoves)
                            /\ newSnakes' = moved
                            /\ deadSnakes' = hits.dead
                            /\ kills' = hits.kills
                            /\ borderHit' = ClientBorderPass(moved, 1, << >>)
                            /\ evaluated' = Evaluations(evaluated, botMoves, tickCounter')
    /\ UNCHANGED << engine, inputRef, inputs, layout, inputsLeft >>
    /\ UNCHANGED << broadcasts, botVars, roomVars >>

\* gameTick(room)
ServerGameTick ==
    /\ engine = "server"
    /\ Playing(status)
    /\ ticks < Layouts[layout].horizon
    /\ ticks' = ticks + 1
    /\ LET newTimeRemaining == ServerClock(timeRemaining)
       IN  IF newTimeRemaining <= 0
           THEN /\ timeRemaining' = newTimeRemaining
                /\ status' = "ended"
                /\ broadcasts' = Append(broadcasts, "match_end")
                /\ UNCHANGED << snakes, food, nextId, newSnakes, deadSnakes, kills,
                                borderHit, foodLog >>
           ELSE \E moved \in { ServerMove(snakes, inputs) } :
                \E border \in { ServerBorderDead(snakes, inputs, 1) } :
                \E hits \in { ServerCollisions(moved, border) } :
                \E applied \in { ServerApplyDeaths(moved, hits.dead, hits.kills) } :
                \E jitter \in (IF hits.dead = << >> THEN {<< 0, 0 >>} ELSE Jitters),
                   spawn \in Layouts[layout].spawnSet :
                       \E fed \in { TickFood("server", food, moved, applied, hits.dead,
                                             nextId, jitter, spawn) } :
                           /\ timeRemaining' = newTimeRemaining
                           /\ status' = status
                           /\ snakes' = fed.snakes
                           /\ food' = fed.food
                           /\ nextId' = fed.nextId
                           /\ foodLog' = fed.log
                           /\ newSnakes' = moved
                           /\ deadSnakes' = hits.dead
                           /\ kills' = hits.kills
                           /\ borderHit' = border
                           /\ broadcasts' = broadcasts
                                  \o [i \in DOMAIN hits.kills |-> "player_killed"]
                                  \o << "game_state" >>
    /\ UNCHANGED << engine, inputRef, inputs, boostEnergy, tickCounter, layout, inputsLeft >>
    /\ UNCHANGED << evaluated, botVars, roomVars >>

\* a frame that fires after the match has ended, before the effect's cleanup
\* cancels the loop: the counter is advanced and the state update returns prev
ClientLateFrame ==
    /\ engine = "client"
    /\ ~Playing(status)
    /\ tickCounter <= ticks
    /\ tickCounter' = tickCounter + 1
    /\ UNCHANGED << engine, status, timeRemaining, snakes, food, inputRef, inputs, boostEnergy,
                    nextId, newSnakes, deadSnakes, kills, borderHit, foodLog, ticks, layout,
                    inputsLeft, broadcasts, evaluated >>
    /\ UNCHANGED << botVars, roomVars >>

Next == HandlePlayerInput \/ ServerInput \/ ClientTick \/ ServerGameTick \/ ClientLateFrame

Spec == Init /\ [][Next]_vars

\* the matches met close to their end, with the tick loop running: the frame
\* callback (requestAnimationFrame reschedules tick on every frame) and the
\* room's interval timer keep calling the tick while the match is on. TickTaken
\* is a step of ClientTick or ServerGameTick, told by their common guard and
\* their count of ticks
ClosingInit == Init /\ Layouts[layout].clock < MATCH_DURATION
TickTaken ==
    /\ status = "playing"
    /\ ticks < Layouts[layout].horizon
    /\ ticks' = ticks + 1
ClosingSpec == ClosingInit /\ [][Next]_vars /\ WF_ticks(TickTaken)

\* The matches on the short clock again, with bursts of input events between the
\* ticks
InputBurst == 2
InputInit == Setup(InputBurst) /\ Layouts[layout].clock < MATCH_DURATION
InputSpec == InputInit /\ [][Next]_vars

---------------------------------------------------------------------------
(* Vocabulary of the claims: the last tick's post-movement snapshot newSnakes *)
(* against the state the tick produced                                       *)

\* the last tick updated the game (the tick that ends the match updates nothing)
Ticked == ticks > 0 /\ status = "playing"
Agents == 1..Len(snakes)
HeadOf(list, k) == list[k].segments[1]

\* alive when the tick's collision phase began
LiveIn(k) == newSnakes[k].isAlive

\* the head of a touches some body segment (index >= 1) of b, within distance c
TouchesBody(a, b, c) ==
    \E i \in 1..(Len(newSnakes[b].segments) - 1) :
        DistLess(HeadOf(newSnakes, a), newSnakes[b].segments[Seg(i)], c)

HeadsTouch(a, b, c) == DistLess(HeadOf(newSnakes, a), HeadOf(newSnakes, b), c)

\* a takes part in a collision other than its head-to-head contact with b
OtherCollision(a, b, c) ==
    \/ Has(borderHit, newSnakes[a].id)
    \/ \E k \in Agents \ {a, b} :
          LiveIn(k) /\ (HeadsTouch(a, k, c) \/ TouchesBody(a, k, c) \/ TouchesBody(k, a, c))

\* a and b met head to head in the last tick and in no other collision
IsolatedPair(a, b, c) ==
    /\ a # b /\ LiveIn(a) /\ LiveIn(b)
    /\ HeadsTouch(a, b, c)
    /\ ~OtherCollision(a, b, c) /\ ~OtherCollision(b, a, c)

NearTie(a, b) ==
    10 * Abs(newSnakes[a].score - newSnakes[b].score)
        < Max(newSnakes[a].score, newSnakes[b].score)

\* both die and neither gains a kill or score
BothDie(a, b) ==
    /\ ~snakes[a].isAlive /\ ~snakes[b].isAlive
    /\ snakes[a].kills = newSnakes[a].kills /\ snakes[b].kills = newSnakes[b].kills
    /\ snakes[a].score = newSnakes[a].score /\ snakes[b].score = newSnakes[b].score

\* lo dies; hi lives on, with one more kill and lo's pre-death score (food aside)
LowerDies(lo, hi) ==
    /\ ~snakes[lo].isAlive /\ snakes[hi].isAlive
    /\ snakes[lo].kills = newSnakes[lo].kills /\ snakes[lo].score = newSnakes[lo].score
    /\ snakes[hi].kills = newSnakes[hi].kills + 1
    /\ snakes[hi].score = newSnakes[hi].score + newSnakes[lo].score
                          + foodLog.gain[hi] * ScoreUnit

ResolvedByScore(a, b) ==
    IF NearTie(a, b) THEN BothDie(a, b)
    ELSE IF newSnakes[a].score < newSnakes[b].score THEN LowerDies(a, b)
    ELSE LowerDies(b, a)

---------------------------------------------------------------------------
(* C1: in the client tick, two live agents whose heads are closer than       *)
(* 0.85 x (r1 + r2) and that take part in no other collision in that tick     *)
(* both die without credit when their scores differ by less than 10% of the   *)
(* larger; otherwise exactly the lower-score agent dies and the other gains   *)
(* exactly one kill and exactly the victim's pre-death score.                 *)
C1_HeadToHeadByScore ==
    (engine = "client" /\ Ticked) =>
        \A a, b \in Agents :
            IsolatedPair(a, b, ClientCollisionDist) => ResolvedByScore(a, b)

C1_Witness ==
    /\ engine = "client" /\ Ticked
    /\ \E a, b \in Agents :
          /\ IsolatedPair(a, b, ClientCollisionDist)
          /\ ~NearTie(a, b)
          /\ newSnakes[a].score = 100 * ScoreUnit /\ newSnakes[b].score = 20 * ScoreUnit
          /\ snakes[a].kills = 1 /\ ~snakes[b].isAlive

(* C2: the server gameTick resolves a head-to-head contact by score: when two *)
(* live heads overlap, the lower-score agent dies and the higher-score agent  *)
(* is credited with one kill and the victim's score (both die on a near-tie), *)
(* whatever the order of the room's players.                                  *)
C2_ServerHeadToHeadByScore ==
    (engine = "server" /\ Ticked) =>
        \A a, b \in Agents :
            IsolatedPair(a, b, ServerCollisionDist) => ResolvedByScore(a, b)

(* C3: after the growth step of every tick, in both engines, every agent that *)
(* took the step has max(floor(score), INITIAL_LENGTH) segments, score being  *)
(* the value the growth step read.                                            *)
TookGrowthStep(k) ==
    LiveIn(k) /\ (engine = "server" => ~Has(borderHit, newSnakes[k].id))

C3_SegmentCount ==
    Ticked =>
        \A k \in Agents :
            TookGrowthStep(k) =>
                Len(newSnakes[k].segments) = Max(Floor(newSnakes[k].score), INITIAL_LENGTH)

\* an agent grew by many segments in one tick
C3_Witness ==
    /\ Ticked
    /\ \E k \in Agents :
          /\ TookGrowthStep(k)
          /\ Len(newSnakes[k].segments) >= 2 * INITIAL_LENGTH
          /\ newSnakes[k].segments[INITIAL_LENGTH] = newSnakes[k].segments[2 * INITIAL_LENGTH]

(* C4: at the end of every tick, in both engines, every agent still alive has *)
(* its head inside the arena inset by the segment radius, and an agent whose  *)
(* head left that region in the tick is dead at the end of the same tick.     *)
InsideArena(p) ==
    /\ SEGMENT_RADIUS <= p.x /\ p.x <= MAP_WIDTH - SEGMENT_RADIUS
    /\ SEGMENT_RADIUS <= p.y /\ p.y <= MAP_HEIGHT - SEGMENT_RADIUS

C4_AliveInsideArena ==
    /\ \A k \in Agents : snakes[k].isAlive => InsideArena(HeadOf(snakes, k))
    /\ \A k \in Agents : Has(borderHit, snakes[k].id) => ~snakes[k].isAlive

C4_Witness ==
    /\ Ticked
    /\ \E k \in Agents : Has(borderHit, snakes[k].id) /\ ~snakes[k].isAlive

(* C5: in the server gameTick, normal turning never self-kills: an agent      *)
(* that moves under the speed and TURN_RATE limits is never marked dead by    *)
(* the self-collision check because of segments in its own neck region; a     *)
(* self-collision death needs a contact beyond the neck-exclusion window.     *)
NeckWindow == 25

\* dead in the last tick, and neither by the border nor by another snake
SelfKilled(k) ==
    /\ LiveIn(k) /\ ~snakes[k].isAlive
    /\ ~Has(borderHit, snakes[k].id)
    /\ \A i \in DOMAIN kills : kills[i].victimId # snakes[k].id

\* the head is within distance c of a segment of its own body beyond the neck window
TouchesOwnBody(k, c) ==
    \E i \in NeckWindow..(Len(newSnakes[k].segments) - 1) :
        DistLess(HeadOf(newSnakes, k), newSnakes[k].segments[Seg(i)], c)

C5_NoNeckSelfKill ==
    (engine = "server" /\ Ticked) =>
        \A k \in Agents : SelfKilled(k) => TouchesOwnBody(k, ServerCollisionDist)

(* C6: in the client tick, a live agent whose head comes within               *)
(* 0.85 x (headRadius + segRadius) of one of its own body segments beyond the *)
(* neck-exclusion window is marked dead in that tick.                         *)
C6_ClientSelfCollisionKills ==
    (engine = "client" /\ Ticked) =>
        \A k \in Agents :
            (LiveIn(k) /\ TouchesOwnBody(k, ClientCollisionDist)) => ~snakes[k].isAlive

(* C7: in any tick of either engine, each agent that dies is the victim of at *)
(* most one kill record, so that its score is credited to at most one killer. *)
KillRecordsOf(id) == { i \in DOMAIN kills : kills[i].victimId = id }

C7_DiesAtMostOnce ==
    Ticked => \A k \in Agents : Cardinality(KillRecordsOf(snakes[k].id)) <= 1

(* C8: in the collision phase of a tick of either engine, once an agent is in *)
(* the tick's pending dead set no other agent is killed by a contact with it: *)
(* no kill record names a killer that entered the dead set before its victim. *)
OrderIn(seq, x) == CHOOSE i \in 1..Len(seq) : seq[i] = x

DiedBefore(a, b) ==
    /\ Has(deadSnakes, a) /\ Has(deadSnakes, b)
    /\ OrderIn(deadSnakes, a) < OrderIn(deadSnakes, b)

C8_DyingAgentKillsNobody ==
    Ticked => \A i \in DOMAIN kills : ~DiedBefore(kills[i].killerId, kills[i].victimId)

(* C9: at the end of every tick while the match is playing, in both engines,  *)
(* the number of food items equals FOOD_SPAWN_RATE exactly, also in ticks in  *)
(* which agents die and drop food.                                            *)
C9_FoodEqualsTarget ==
    (Ticked /\ status = "playing") => Len(food) = FOOD_SPAWN_RATE(engine)

(* C9, as the code has it: at the end of every playing tick the number of     *)
(* food items is at least FOOD_SPAWN_RATE, and it is FOOD_SPAWN_RATE exactly  *)
(* as long as no agent has died: only death drops carry it above the target.  *)
C9_FoodAtLeastTarget ==
    (Ticked /\ status = "playing") =>
        /\ Len(food) >= FOOD_SPAWN_RATE(engine)
        /\ (\A k \in Agents : snakes[k].isAlive) => Len(food) = FOOD_SPAWN_RATE(engine)

\* a tick in which an agent died and its drops carried the population above the target
C9_Witness ==
    /\ Ticked /\ status = "playing"
    /\ foodLog.dropped > 0
    /\ Len(food) > FOOD_SPAWN_RATE(engine)
    /\ \E k \in Agents : LiveIn(k) /\ ~snakes[k].isAlive

(* C10: population maintenance only tops up: with n food items left after the *)
(* tick's pickups and death drops, it spawns exactly max(0, target - n) new    *)
(* items and removes none, so that the tick ends with max(n, target) items.    *)
C10_MaintenanceOnlyTopsUp ==
    (Ticked /\ status = "playing") =>
        LET n == Len(foodLog.left)
            target == FOOD_SPAWN_RATE(engine)
        IN  /\ foodLog.spawned = Max(0, target - n)
            /\ Len(food) = Max(n, target)
            /\ Len(food) >= n
            /\ \A k \in 1..n : food[k].id = foodLog.left[k]
            /\ \A k \in (n + 1)..Len(food) : \A j \in 1..n : food[k].id # foodLog.left[j]

\* both cases in one run: food was eaten and replaced, then drops went above the target
C10_Witness ==
    /\ Ticked /\ status = "playing"
    /\ Len(foodLog.left) > FOOD_SPAWN_RATE(engine)
    /\ foodLog.spawned = 0
    /\ \E k \in Agents : snakes[k].score > INITIAL_LENGTH * ScoreUnit

(* C11: in every reachable state of either engine every agent's score is at   *)
(* least INITIAL_LENGTH: the boost drain stops at the minimum and nothing     *)
(* else lowers a score.                                                       *)
C11_ScoreAtLeastMinimum ==
    /\ \A k \in Agents : snakes[k].score >= INITIAL_LENGTH * ScoreUnit
    /\ \A k \in Agents : newSnakes[k].score >= INITIAL_LENGTH * ScoreUnit

\* an agent boosted through a tick at the minimum score and kept it
C11_Witness ==
    /\ Ticked
    /\ \E k \in Agents :
          /\ LiveIn(k) /\ newSnakes[k].isBoosting
          /\ newSnakes[k].score = INITIAL_LENGTH * ScoreUnit
          /\ snakes[k].score >= INITIAL_LENGTH * ScoreUnit

(* C12: dead agents are frozen: in every tick of either engine an agent whose *)
(* alive flag is false keeps that flag, its segments, heading, speed, score   *)
(* and kill count, is the killer in no kill record of the tick, and collects  *)
(* no food.                                                                   *)
FrozenThrough(k) ==
    /\ snakes'[k] = snakes[k]
    /\ \A i \in DOMAIN kills' : kills'[i].killerId # snakes[k].id
    /\ foodLog'.gain[k] = 0

C12_DeadAreFrozen ==
    [][ticks' # ticks => \A k \in Agents : ~snakes[k].isAlive => FrozenThrough(k)]_vars

\* an agent dead before the last tick began, with food lying in pickup range of its head
C12_Witness ==
    /\ Ticked /\ status = "playing"
    /\ \E k \in Agents :
          /\ ~newSnakes[k].isAlive /\ ~snakes[k].isAlive
          /\ \E f \in DOMAIN food : DistLess(HeadOf(snakes, k), food[f], PickupDist)

(* C13: in any tick in which a live human-controlled agent's commanded boost  *)
(* flag is on and its score at tick start exceeds INITIAL_LENGTH, the agent's *)
(* speed is BOOST_SPEED, its head moves BOOST_SPEED units along its new       *)
(* heading, and the movement step lowers its score by exactly                 *)
(* BOOST_COST_PER_TICK, on every such tick.                                   *)
IsHuman(k) == engine = "server" \/ snakes[k].id = playerId

BoostCommanded(k) ==
    IF engine = "client" THEN inputRef.isBoosting ELSE inputs[k].isBoosting

\* a tick that updates the game, as opposed to the one that ends the match
PlayingTick == ticks' # ticks /\ status' = "playing"

MayBoost(k) ==
    /\ IsHuman(k) /\ snakes[k].isAlive /\ BoostCommanded(k)
    /\ snakes[k].score > INITIAL_LENGTH * ScoreUnit

BoostedStep(k) ==
    /\ newSnakes'[k].speed = BOOST_SPEED(engine)
    /\ newSnakes'[k].score = snakes[k].score - BOOST_COST_PER_TICK

BoostedHead(k) ==
    newSnakes'[k].segments[1]
        = MoveHead(snakes[k].segments[1], newSnakes'[k].direction, BOOST_SPEED(engine))

C13_HumanBoostEveryTick ==
    [][PlayingTick => \A k \in Agents : MayBoost(k) => (BoostedStep(k) /\ BoostedHead(k))]_vars

(* C13, as the code has it: the same, provided in the client that the boost   *)
(* energy of the player is above zero at the start of the tick; the head is   *)
(* BOOST_SPEED units along the new heading unless that point lies outside the *)
(* arena inset by the segment radius, in which case the agent dies.           *)
HasEnergy(k) == engine = "client" => boostEnergy[k] > 0

LeavesArena(k) ==
    ~InsideArena(MoveHead(snakes[k].segments[1], newSnakes'[k].direction, BOOST_SPEED(engine)))

C13_HumanBoostWithEnergy ==
    [][PlayingTick =>
         \A k \in Agents :
             (MayBoost(k) /\ HasEnergy(k)) =>
                 /\ BoostedStep(k)
                 /\ IF LeavesArena(k) THEN ~snakes'[k].isAlive ELSE BoostedHead(k)]_vars

\* a human agent in a boosted tick that is not its first: two drains or more taken
C13_Witness ==
    /\ Ticked
    /\ \E k \in Agents :
          /\ (engine = "server" \/ snakes[k].id = playerId)
          /\ LiveIn(k) /\ newSnakes[k].isBoosting
          /\ newSnakes[k].speed = BOOST_SPEED(engine)
          /\ newSnakes[k].score % ScoreUnit \in 1..(ScoreUnit - 2)


---------------------------------------------------------------------------
(* Bot controller (botAI.ts): probabilities and personality factors in       *)
(* thousandths, lengths in hundredths of a world unit, times in ms           *)

\* distance(p1, p2), to the world unit beyond 40 units
distance(p1, p2) == distance10(p1, p2) \div 10

\* createBotPersonality(): two of the personalities it can draw
Personalities ==
    { [reactionSpeed |-> 500, dangerLookAhead |-> 200 * U, hungerLevel |-> 800,
       curviness |-> 50, boostFrequency |-> 50, aggression |-> 200],
      [reactionSpeed |-> 960, dangerLookAhead |-> 107 * U, hungerLevel |-> 650,
       curviness |-> 100, boostFrequency |-> 150, aggression |-> 500] }

NoTarget == 0           \* null, for food and snake ids (ids start at 1)
NoColor == "null"
NoPoint == Point(-1, -1)

\* createBotState(), at time t, with the drawn personality and wander phase
createBotState(personality, phase, t) ==
    [ personality |-> personality, wanderPhase |-> phase, lastBoostTime |-> 0,
      currentFoodTarget |-> NoTarget, foodTargetAge |-> 0, lastDirectionChange |-> t,
      pauseEating |-> FALSE, pauseEatingUntil |-> 0,
      huntTarget |-> NoTarget, huntStartTime |-> 0, lastHuntAttempt |-> 0,
      collectingLoot |-> FALSE, lootTargetColor |-> NoColor, lootCollectionStart |-> 0,
      lootPosition |-> NoPoint ]

\* activateLootCollection(botState, victimColor, victimPosition), at time t
activateLootCollection(botState, victimColor, victimPosition, t) ==
    [botState EXCEPT !.collectingLoot = TRUE, !.lootTargetColor = victimColor,
                     !.lootCollectionStart = t, !.lootPosition = victimPosition,
                     !.huntTarget = NoTarget]

\* the best item of a food list under a rating: position of the first item with
\* the highest rating among those the filter keeps, 0 when it keeps none
BestRated(rating, keep, last) ==
    LET kept == { k \in 1..last : keep[k] }
    IN  IF kept = {} THEN 0
        ELSE CHOOSE k \in kept :
                 \A j \in kept : rating[j] < rating[k] \/ (rating[j] = rating[k] /\ j >= k)

LOOT_RADIUS == 400 * U

\* findLootFood(bot, food, botState): position in the food list, 0 for null;
\* the score 1000 / (distToBot + 50) is kept in millionths
findLootFood(bot, foodList, botState) ==
    IF botState.lootTargetColor = NoColor \/ botState.lootPosition = NoPoint THEN 0
    ELSE LET head == bot.segments[1]
             keep == [k \in 1..Len(foodList) |->
                        /\ foodList[k].color = botState.lootTargetColor
                        /\ ~DistMore(botState.lootPosition, foodList[k], LOOT_RADIUS)]
             rating == [k \in 1..Len(foodList) |->
                          IF keep[k] THEN (1000000 * U) \div (distance(head, foodList[k]) + 50 * U)
                          ELSE 0]
         IN  BestRated(rating, keep, Len(foodList))

Infinity == 2000000000

\* distanceToWall(pos, direction)
distanceToWall(pos, direction) ==
    LET cosD == Cos1000(direction)
        sinD == Sin1000(direction)
        right == IF cosD > 10 THEN ((MAP_WIDTH - pos.x) * 1000) \div cosD ELSE Infinity
        left == IF cosD < -10 THEN (pos.x * 1000) \div (-cosD) ELSE Infinity
        bottom == IF sinD > 10 THEN ((MAP_HEIGHT - pos.y) * 1000) \div sinD ELSE Infinity
        top == IF sinD < -10 THEN (pos.y * 1000) \div (-sinD) ELSE Infinity
    IN  Max(0, Min(Min(right, left), Min(bottom, top)))

\* isInSafeZone(pos, margin)
isInSafeZone(pos, margin) ==
    /\ pos.x > margin /\ pos.x < MAP_WIDTH - margin
    /\ pos.y > margin /\ pos.y < MAP_HEIGHT - margin

NoAngle == [some |-> FALSE, angle |-> 0]
SomeAngle(a) == [some |-> TRUE, angle |-> a]

\* the escape direction of getWallAvoidanceAngle: the first of the 8 test angles
\* with the highest score testDist + centerBonus * 100
EscapeScore(pos, testAngle) ==
    LET toCenterAngle == angleBetween(pos, Point(MAP_WIDTH \div 2, MAP_HEIGHT \div 2))
        angleDiffToCenter == Abs(normalizeAngle(testAngle - toCenterAngle))
    IN  distanceToWall(pos, testAngle) + ((PI - angleDiffToCenter) * 100 * U) \div PI

RECURSIVE BestEscape(_, _, _, _)
BestEscape(pos, currentDirection, i, best) ==
    IF i >= 8 THEN best
    ELSE LET testAngle == currentDirection + (i - 4) * 400
         IN  IF i = 0 \/ EscapeScore(pos, testAngle) > EscapeScore(pos, best)
             THEN BestEscape(pos, currentDirection, i + 1, testAngle)
             ELSE BestEscape(pos, currentDirection, i + 1, best)

\* getWallAvoidanceAngle(pos, currentDirection, lookAhead)
getWallAvoidanceAngle(pos, currentDirection, lookAhead) ==
    LET wallDist == distanceToWall(pos, currentDirection)
    IN  IF wallDist > lookAhead THEN NoAngle
        ELSE LET urgency == 1000 - (wallDist * 1000) \div lookAhead
                 bestAngle == BestEscape(pos, currentDirection, 0, currentDirection)
                 blendFactor == Min(1000, urgency * 2)
             IN  SomeAngle(currentDirection
                           + DivR(normalizeAngle(bestAngle - currentDirection) * blendFactor, 1000))

NoAvoidance == [some |-> FALSE, angle |-> 0, danger |-> 0, isAttacking |-> FALSE]

\* the segment loop of getSnakeAvoidanceAngle over one snake, from index i in steps
\* of 4, leaving as soon as the accumulated danger exceeds 1.5
RECURSIVE ScanSegments(_, _, _, _, _)
ScanSegments(bot, snake, i, lookDistance, acc) ==
    IF i >= Len(snake.segments) \/ acc.total > 1500 THEN acc
    ELSE LET head == bot.segments[1]
             seg == snake.segments[Seg(i)]
             dist == distance(head, seg)
             angleDiff == Abs(normalizeAngle(angleBetween(head, seg) - bot.direction))
         IN  IF dist > lookDistance \/ angleDiff > PI \div 2
             THEN ScanSegments(bot, snake, i + 4, lookDistance, acc)
             ELSE LET danger == 1000 - (dist * 1000) \div lookDistance
                      weight == (danger * danger) \div 1000
                      awayAngle == angleBetween(seg, head)
                  IN  ScanSegments(bot, snake, i + 4, lookDistance,
                          [acc EXCEPT !.x = @ + (Cos1000(awayAngle) * weight) \div 1000,
                                      !.y = @ + (Sin1000(awayAngle) * weight) \div 1000,
                                      !.total = @ + weight])

\* the snake loop of getSnakeAvoidanceAngle, from position k of allSnakes
RECURSIVE ScanSnakes(_, _, _, _, _)
ScanSnakes(bot, allSnakes, k, lookDistance, acc) ==
    IF k > Len(allSnakes) \/ acc.total > 1500 THEN acc
    ELSE LET snake == allSnakes[k]
             distToPlayer == distance(bot.segments[1], snake.segments[1])
             tracked == IF /\ snake.id = playerId /\ snake.id # bot.id
                           /\ distToPlayer < acc.nearestPlayerDist /\ distToPlayer < 300 * U
                        THEN [acc EXCEPT !.nearestPlayerDist = distToPlayer,
                                         !.nearestPlayerHead = snake.segments[1]]
                        ELSE acc
         IN  IF ~snake.isAlive THEN ScanSnakes(bot, allSnakes, k + 1, lookDistance, acc)
             ELSE ScanSnakes(bot, allSnakes, k + 1, lookDistance,
                      ScanSegments(bot, snake, IF snake.id = bot.id THEN 15 ELSE 0,
                                   lookDistance, tracked))

\* getSnakeAvoidanceAngle(bot, allSnakes, personality); attack tells whether
\* Math.random() fell below the attack chance
getSnakeAvoidanceAngle(bot, allSnakes, personality, attack) ==
    LET head == bot.segments[1]
        lookDistance == (personality.dangerLookAhead * 3) \div 2
        scan == ScanSnakes(bot, allSnakes, 1, lookDistance,
                    [x |-> 0, y |-> 0, total |-> 0,
                     nearestPlayerHead |-> NoPoint, nearestPlayerDist |-> Infinity])
    IN  IF scan.nearestPlayerHead # NoPoint /\ attack /\ scan.nearestPlayerDist > 80 * U
        THEN [some |-> TRUE, angle |-> angleBetween(head, scan.nearestPlayerHead),
              danger |-> 500, isAttacking |-> TRUE]
        ELSE IF scan.total < 100 THEN NoAvoidance
        ELSE LET escapeAngle == Atan2(scan.y, scan.x)
             IN  [some |-> TRUE,
                  angle |-> bot.direction
                            + DivR(normalizeAngle(escapeAngle - bot.direction)
                                   * personality.reactionSpeed, 1000),
                  danger |-> Min(1000, scan.total), isAttacking |-> FALSE]

FOOD_RADIUS == 700 * U
FOOD_CHECKED == 51      \* items that pass "checkedCount++ > 50"

\* the contested-food test of findBestFood: a head of one of the first 4 other
\* live snakes within 100 of the item
OtherLive(bot, allSnakes) ==
    SelectSeq(allSnakes, LAMBDA s : s.id # bot.id /\ s.isAlive)
Contested(bot, allSnakes, f) ==
    LET others == OtherLive(bot, allSnakes)
    IN  \E j \in 1..Min(4, Len(others)) : DistLess(f, others[j].segments[1], 100 * U)

\* findBestFood(bot, food, allSnakes, botState): position in the food list, 0 for null
findBestFood(bot, foodList, allSnakes, botState) ==
    LET head == bot.segments[1]
        last == Min(FOOD_CHECKED, Len(foodList))
        keep == [k \in 1..last |-> distance(head, foodList[k]) <= FOOD_RADIUS]
        score == [k \in 1..last |->
                    IF ~keep[k] THEN 0
                    ELSE LET f == foodList[k]
                             base == (f.value * 100000 * U) \div (distance(head, f) + 50 * U)
                             held == IF botState.currentFoodTarget = f.id
                                     THEN (base * 15) \div 10 ELSE base
                             walled == IF ~isInSafeZone(f, 100 * U) THEN held \div 2 ELSE held
                         IN  IF Contested(bot, allSnakes, f) THEN (walled * 3) \div 10
                             ELSE walled]
    IN  BestRated(score, keep, last)

\* findHuntTarget(bot, allSnakes, personality): position in allSnakes, 0 for null;
\* considerPlayer tells whether Math.random() let the player be a candidate
HuntCandidate(bot, other, considerPlayer) ==
    /\ IF other.id = playerId
       THEN bot.score >= other.score * 2 /\ considerPlayer
       ELSE other.score * 10 <= bot.score * 9
    /\ other.score >= 5 * ScoreUnit
    /\ distance(bot.segments[1], other.segments[1]) <= 500 * U
    /\ isInSafeZone(other.segments[1], 150 * U)
HuntScore(bot, other) ==
    ((IF other.id = playerId THEN (other.score * 3) \div 2 ELSE other.score) * 1000 * U)
        \div (distance(bot.segments[1], other.segments[1]) + 100 * U)
findHuntTarget(bot, allSnakes, considerPlayer) ==
    IF bot.score < 15 * ScoreUnit THEN 0
    ELSE LET seen == { k \in 1..Len(allSnakes) :
                         /\ allSnakes[k].id # bot.id /\ allSnakes[k].isAlive
                         /\ Cardinality({j \in 1..(k - 1) : allSnakes[j].id # bot.id
                                                           /\ allSnakes[j].isAlive}) <= 10 }
             keep == [k \in 1..Len(allSnakes) |->
                        k \in seen /\ HuntCandidate(bot, allSnakes[k], considerPlayer)
                                   /\ HuntScore(bot, allSnakes[k]) > 0]
             score == [k \in 1..Len(allSnakes) |->
                         IF keep[k] THEN HuntScore(bot, allSnakes[k]) ELSE 0]
         IN  BestRated(score, keep, Len(allSnakes))

\* calculateHuntAngle(hunter, prey)
calculateHuntAngle(hunter, prey) ==
    LET hunterHead == hunter.segments[1]
        preyHead == prey.segments[1]
    IN  IF distance(hunterHead, preyHead) < 150 * U THEN angleBetween(hunterHead, preyHead)
        ELSE LET preySpeed == IF prey.isBoosting THEN BOOST_SPEED("client")
                              ELSE BASE_SPEED("client")
                 predictDistance == preySpeed * 30
             IN  angleBetween(hunterHead,
                     Point(preyHead.x + (Cos1000(prey.direction) * predictDistance) \div 1000,
                           preyHead.y + (Sin1000(prey.direction) * predictDistance) \div 1000))

\* getWanderAngle(bot, botState), at time t: the angle and the bot state it leaves;
\* change and turn are the outcomes of its two Math.random() calls
getWanderAngle(bot, botState, t, change, turn) ==
    LET wanderOffset == (Sin1000(botState.wanderPhase) * botState.personality.curviness)
                            \div 1000
        elapsed == t - botState.lastDirectionChange
        changes == elapsed >= 10000 \/ (elapsed > 5000 /\ change)
    IN  [angle |-> bot.direction + wanderOffset + (IF changes THEN turn ELSE 0),
         botState |-> IF changes THEN [botState EXCEPT !.lastDirectionChange = t]
                      ELSE botState]

\* the outcomes of the Math.random() calls of one calculateBotMove call
Draws ==
    [ attack : BOOLEAN,             \* below the attack chance
      considerPlayer : BOOLEAN,     \* findHuntTarget: the player is a candidate
      hunt : BOOLEAN,               \* below a hunt chance under 1
      pause : BOOLEAN,              \* above hungerLevel
      pauseFor : {1000, 2999},      \* 1000 + Math.random() * 2000
      reevaluate : BOOLEAN,         \* above 0.7
      boost : BOOLEAN,              \* below boostFrequency * 0.01
      change : BOOLEAN,             \* getWanderAngle: the change threshold is passed
      turn : {-250, 249} ]          \* (Math.random() - 0.5) * 0.5

PositionOfId(list, id) ==
    IF \E k \in 1..Len(list) : list[k].id = id
    THEN CHOOSE k \in 1..Len(list) : list[k].id = id /\ \A j \in 1..(k - 1) : list[j].id # id
    ELSE 0

\* the queries calculateBotMove makes of the world. They read the bot state only
\* in fields that no earlier stage of the call writes (personality, loot colour and
\* position, current food target), so they are taken once, from the state at entry
Queries(bot, allSnakes, foodList, botState) ==
    [ wallAngle |-> getWallAvoidanceAngle(bot.segments[1], bot.direction,
                                          botState.personality.dangerLookAhead),
      wallDist |-> distanceToWall(bot.segments[1], bot.direction),
      snakeAvoid |-> [attack \in BOOLEAN |->
                        getSnakeAvoidanceAngle(bot, allSnakes, botState.personality, attack)],
      huntTarget |-> [considerPlayer \in BOOLEAN |->
                        findHuntTarget(bot, allSnakes, considerPlayer)],
      lootFood |-> findLootFood(bot, foodList, botState),
      bestFood |-> findBestFood(bot, foodList, allSnakes, botState) ]

\* PRIORITY 1: wall avoidance
WallStage(q, st, energy) ==
    IF ~q.wallAngle.some THEN st
    ELSE [st EXCEPT !.targetAngle = q.wallAngle.angle, !.behavior = "wall_avoid",
                    !.shouldBoost = q.wallDist < 50 * U /\ energy > 400]

\* PRIORITY 2: snake avoidance
SnakeStage(q, st, energy, t, draws) ==
    IF st.behavior = "wall_avoid" THEN st
    ELSE LET snakeAvoid == q.snakeAvoid[draws.attack]
         IN  IF ~(snakeAvoid.some /\ snakeAvoid.danger > 300) THEN st
             ELSE LET boosts == /\ snakeAvoid.danger > 700 /\ energy > 600
                                /\ t - st.botState.lastBoostTime > 3000
                  IN  [st EXCEPT !.targetAngle = snakeAvoid.angle, !.behavior = "snake_avoid",
                                 !.shouldBoost = boosts,
                                 !.botState.lastBoostTime = IF boosts THEN t ELSE @]

\* variant: a hunt that is never too long
AbortsHuntUntimed(bot, prey, dist, huntDuration) ==
    dist > 600 * U \/ prey.score * 100 > bot.score * 95

\* "Abort hunt if": prey too far, hunt too long, prey now bigger than 95%
AbortsHunt(bot, prey, dist, huntDuration) ==
    dist > 600 * U \/ huntDuration > 15000 \/ prey.score * 100 > bot.score * 95

\* PRIORITY 3: hunting
HuntStage(q, bot, allSnakes, st, energy, t, draws) ==
    IF st.behavior # "wander" THEN st
    ELSE LET attempts == t - st.botState.lastHuntAttempt > 1500
             chance == (st.botState.personality.aggression * 5) \div 2 + 300
             target == IF attempts /\ (chance >= 1000 \/ draws.hunt)
                       THEN q.huntTarget[draws.considerPlayer] ELSE 0
             s1 == IF ~attempts THEN st.botState
                   ELSE IF target = 0 THEN [st.botState EXCEPT !.lastHuntAttempt = t]
                   ELSE [st.botState EXCEPT !.lastHuntAttempt = t,
                                            !.huntTarget = allSnakes[target].id,
                                            !.huntStartTime = t]
             at == PositionOfId(allSnakes, s1.huntTarget)
         IN  IF s1.huntTarget = NoTarget THEN [st EXCEPT !.botState = s1]
             ELSE IF at = 0 \/ ~allSnakes[at].isAlive
                  THEN [st EXCEPT !.botState = [s1 EXCEPT !.huntTarget = NoTarget]]
             ELSE LET prey == allSnakes[at]
                      dist == distance(bot.segments[1], prey.segments[1])
                      huntDuration == t - s1.huntStartTime
                  IN  IF AbortsHunt(bot, prey, dist, huntDuration)
                      THEN [st EXCEPT !.botState = [s1 EXCEPT !.huntTarget = NoTarget]]
                      ELSE LET boosts == /\ dist < 250 * U /\ energy > 400
                                         /\ t - s1.lastBoostTime > 1500
                           IN  [st EXCEPT !.targetAngle = calculateHuntAngle(bot, prey),
                                          !.behavior = "hunt",
                                          !.shouldBoost = st.shouldBoost \/ boosts,
                                          !.botState = [s1 EXCEPT !.lastBoostTime =
                                                           IF boosts THEN t ELSE @]]

LOOT_WINDOW == 5000

\* variant: loot collection without the time window
LootStageUnbounded(q, bot, foodList, st, energy, t) ==
    IF ~(st.behavior = "wander" /\ st.botState.collectingLoot) THEN st
    ELSE IF q.lootFood = 0
         THEN [st EXCEPT !.botState.collectingLoot = FALSE,
                         !.botState.lootTargetColor = NoColor,
                         !.botState.lootPosition = NoPoint]
         ELSE [st EXCEPT !.targetAngle = angleBetween(bot.segments[1], foodList[q.lootFood]),
                         !.behavior = "loot"]

\* PRIORITY 3.5: loot collection
LootStage(q, bot, foodList, st, energy, t) ==
    IF ~(st.behavior = "wander" /\ st.botState.collectingLoot) THEN st
    ELSE LET lootDuration == t - st.botState.lootCollectionStart
             stopped == [st EXCEPT !.botState.collectingLoot = FALSE,
                                   !.botState.lootTargetColor = NoColor,
                                   !.botState.lootPosition = NoPoint]
             lootFood == q.lootFood
         IN  IF lootDuration > LOOT_WINDOW THEN stopped
             ELSE IF lootFood = 0 THEN stopped
             ELSE LET boosts == /\ DistLess(bot.segments[1], foodList[lootFood], 200 * U)
                                /\ energy > 300
                                /\ t - st.botState.lastBoostTime > 1000
                  IN  [st EXCEPT !.targetAngle = angleBetween(bot.segments[1],
                                                              foodList[lootFood]),
                                 !.behavior = "loot",
                                 !.shouldBoost = st.shouldBoost \/ boosts,
                                 !.botState.lastBoostTime = IF boosts THEN t ELSE @]

\* variant: a target that is not in the food list is kept
KeepFoodTarget(botState) == botState

\* "Food was eaten, clear target"
ClearFoodTarget(botState) ==
    [botState EXCEPT !.currentFoodTarget = NoTarget, !.foodTargetAge = 0]

\* PRIORITY 4: food seeking, the body of the stage
FoodSeeking(q, bot, foodList, st, energy, t, draws) ==
         LET s0 == st.botState
             s1 == IF t > s0.pauseEatingUntil
                   THEN [s0 EXCEPT !.pauseEating = draws.pause,
                                   !.pauseEatingUntil = IF draws.pause THEN t + draws.pauseFor
                                                        ELSE @]
                   ELSE s0
             shouldReevaluate == \/ s1.currentFoodTarget = NoTarget
                                 \/ draws.reevaluate
                                 \/ s1.foodTargetAge > 180
             bestFood == q.bestFood
             s2 == IF ~shouldReevaluate THEN s1
                   ELSE IF bestFood # 0
                        THEN [s1 EXCEPT !.currentFoodTarget = foodList[bestFood].id,
                                        !.foodTargetAge = 0]
                        ELSE [s1 EXCEPT !.currentFoodTarget = NoTarget]
             at == PositionOfId(foodList, s2.currentFoodTarget)
         IN  IF s1.pauseEating THEN [st EXCEPT !.botState = s1]
             ELSE IF s2.currentFoodTarget = NoTarget THEN [st EXCEPT !.botState = s2]
             ELSE IF at = 0
                  THEN [st EXCEPT !.botState = ClearFoodTarget(s2)]
             ELSE LET targetFood == foodList[at]
                      boosts == /\ targetFood.value >= 5
                                /\ DistLess(bot.segments[1], targetFood, 150 * U)
                                /\ energy > 600
                                /\ t - s2.lastBoostTime > 3000
                  IN  [st EXCEPT !.targetAngle = angleBetween(bot.segments[1], targetFood),
                                 !.behavior = "eat",
                                 !.shouldBoost = st.shouldBoost \/ boosts,
                                 !.botState = [s2 EXCEPT !.foodTargetAge = @ + 1,
                                                         !.lastBoostTime =
                                                             IF boosts THEN t ELSE @]]

\* variant: food seeking that runs whatever the earlier stages decided
FoodStageUngated(q, bot, foodList, st, energy, t, draws) ==
    FoodSeeking(q, bot, foodList, st, energy, t, draws)

\* PRIORITY 4: food seeking, only while the behaviour is still 'wander'
FoodStage(q, bot, foodList, st, energy, t, draws) ==
    IF st.behavior # "wander" THEN st
    ELSE FoodSeeking(q, bot, foodList, st, energy, t, draws)

\* the wandering fallback and the safety check that ends calculateBotMove
WanderStage(bot, st, energy, t, draws) ==
    IF st.behavior # "wander" THEN st
    ELSE LET wander == getWanderAngle(bot, st.botState, t, draws.change, draws.turn)
             boosts == /\ draws.boost /\ energy > 700
                       /\ t - wander.botState.lastBoostTime > 5000
             toCenterAngle == angleBetween(bot.segments[1],
                                           Point(MAP_WIDTH \div 2, MAP_HEIGHT \div 2))
         IN  [st EXCEPT !.targetAngle =
                            IF ~isInSafeZone(bot.segments[1], 300 * U)
                            THEN bot.direction
                                 + DivR(normalizeAngle(toCenterAngle - bot.direction) * 3, 10)
                            ELSE wander.angle,
                        !.shouldBoost = st.shouldBoost \/ boosts,
                        !.botState = [wander.botState EXCEPT !.lastBoostTime =
                                         IF boosts THEN t ELSE @]]

\* calculateBotMove(bot, allSnakes, food, botState, boostEnergy) called at time t
\* (Date.now()) with the given random outcomes and query results: the move it
\* returns and the bot state it leaves
BotMoveAt(q, bot, allSnakes, foodList, botState, energy, t, draws) ==
    LET phase == botState.wanderPhase + 5
        s0 == [botState EXCEPT !.wanderPhase = IF phase > TWO_PI THEN phase - TWO_PI ELSE phase]
        st0 == [targetAngle |-> bot.direction, shouldBoost |-> FALSE, behavior |-> "wander",
                botState |-> s0]
        st1 == WallStage(q, st0, energy)
        st2 == SnakeStage(q, st1, energy, t, draws)
        st3 == HuntStage(q, bot, allSnakes, st2, energy, t, draws)
        st4 == LootStage(q, bot, foodList, st3, energy, t)
        st5 == FoodStage(q, bot, foodList, st4, energy, t, draws)
    IN  WanderStage(bot, st5, energy, t, draws)

---------------------------------------------------------------------------
(* The control cycle of one client bot: the scenes it is called in, and the  *)
(* bot's branch of the tick's movement step on a tick where it evaluates     *)

MaxCycles == 2
Epoch == 100000         \* Date.now() when the scene is set
Elapsed == { 100, 16000 }   \* ms between two evaluations: 6 ticks, or a tab left behind

Centre == Point(MAP_WIDTH \div 2, MAP_HEIGHT \div 2)
Offset(p, dx, dy) == Point(p.x + dx, p.y + dy)
Grown(snake, score) == [snake EXCEPT !.score = score]
Killed(snake) == [snake EXCEPT !.isAlive = FALSE]

FarPlayer == createSnake("client", playerId, "#00ffff", Point(1000 * U, 1000 * U), 0)
BotAt(pos, direction) == createSnake("client", 2, "#ff00ff", pos, direction)
VictimAt(pos) == Killed(createSnake("client", 3, "#00ff00", pos, PI \div 2))

\* the initial food (all of it far from the scene) with one item near the scene
\* at position p of the list
BaseFood == FillerFood(1, FOOD_SPAWN_RATE("client"))
NearItem(p, pos) == [BaseFood EXCEPT ![p] = Food(p, pos.x, pos.y, 5, "#ffff00")]

\* the food a victim drops: every third segment, value ceil(score / n), its colour
Drops(victim, from) ==
    [i \in 1..CeilDiv(Len(victim.segments), 3) |->
        Food(from + i - 1, victim.segments[3 * i - 2].x, victim.segments[3 * i - 2].y,
             CeilDiv(Floor(victim.score), Len(victim.segments)), victim.color)]

Scene(list, foodList, victim) ==
    [snakes |-> list, food |-> foodList, bot |-> 2, victim |-> victim]

\* a bot in mid-arena with one food item within its search radius
FoodScene(p) ==
    Scene(<< FarPlayer, BotAt(Centre, 0) >>, NearItem(p, Offset(Centre, 300 * U, 100 * U)), 0)

\* a bot that has just killed: the victim's record and its drops, at pos
LootScene(pos, direction, others) ==
    LET victim == VictimAt(Offset(pos, 0, 100 * U))
    IN  Scene(<< FarPlayer, Grown(BotAt(pos, direction), 20 * ScoreUnit), victim >> \o others,
              NearItem(1, Offset(pos, 300 * U, 100 * U))
                  \o Drops(victim, FOOD_SPAWN_RATE("client") + 1), 3)

BotScenes ==
    << FoodScene(1), FoodScene(FOOD_CHECKED), FoodScene(FOOD_CHECKED + 1),
       LootScene(Centre, 0, << >>),
       \* the same next to the west wall, the bot heading for it
       LootScene(Point(150 * U, MAP_HEIGHT \div 2), PI, << >>),
       \* the same with a live snake crossing in front of the bot
       LootScene(Centre, 0,
                 << createSnake("client", 4, "#00ff88", Offset(Centre, 60 * U, -20 * U),
                                PI \div 2) >>),
       \* the same with a smaller bot behind the bot
       LootScene(Centre, 0,
                 << createSnake("client", 4, "#00ff88", Offset(Centre, -200 * U, 0), PI) >>),
       \* a bot of the initial score 45 units from the west wall, heading for it
       Scene(<< FarPlayer, BotAt(Point(45 * U, MAP_HEIGHT \div 2), PI) >>, BaseFood, 0),
       \* a bot in mid-arena with two food items within its search radius
       Scene(<< FarPlayer, BotAt(Centre, 0) >>,
             [NearItem(1, Offset(Centre, 300 * U, 100 * U)) EXCEPT
                 ![2] = Food(2, Centre.x + 200 * U, Centre.y - 100 * U, 3, "#00ff88")], 0) >>

NoMove == [targetAngle |-> 0, shouldBoost |-> FALSE, behavior |-> "none"]

BotInit ==
    \E s \in 1..Len(BotScenes), personality \in Personalities :
        LET S == BotScenes[s]
            fresh == createBotState(personality, 0, Epoch)
        IN  /\ layout = s
            /\ engine = "client"
            /\ status = "playing"
            /\ timeRemaining = MATCH_DURATION
            /\ snakes = S.snakes
            /\ food = S.food
            /\ inputRef = Input(0, 0, FALSE)
            /\ inputs = << >>
            /\ boostEnergy = [k \in 1..Len(S.snakes) |-> 500]
            /\ tickCounter = 0
            /\ nextId = Len(S.food) + 1
            /\ newSnakes = S.snakes
            /\ deadSnakes = << >>
            /\ kills = << >>
            /\ borderHit = << >>
            /\ foodLog = EmptyLog(S.food, Len(S.snakes))
            /\ ticks = 0
            /\ inputsLeft = 0
            /\ broadcasts = << >>
            /\ evaluated = [k \in 1..Len(S.snakes) |-> NotEvaluated]
            /\ NoRooms
            /\ now = Epoch
            /\ moveResult = NoMove
            /\ botStateRef = IF S.victim = 0 THEN fresh
                             ELSE activateLootCollection(fresh, S.snakes[S.victim].color,
                                                         S.snakes[S.victim].segments[1], Epoch)

\* the bot's branch of the movement step when shouldUpdateBotAI holds: the call of
\* calculateBotMove, the boost energy, and the bot's new record
BotControl ==
    /\ ticks < MaxCycles
    /\ ticks' = ticks + 1
    /\ LET k == BotScenes[layout].bot
       IN  \E q \in { Queries(snakes[k], snakes, food, botStateRef) } :
           \E dt \in Elapsed :
           \E r \in { BotMoveAt(q, snakes[k], snakes, food, botStateRef, boostEnergy[k],
                                now + dt, draws) : draws \in Draws } :
                   /\ now' = now + dt
                   /\ botStateRef' = r.botState
                   /\ moveResult' = [targetAngle |-> r.targetAngle,
                                     shouldBoost |-> r.shouldBoost, behavior |-> r.behavior]
                   /\ boostEnergy' = [boostEnergy EXCEPT ![k] =
                                         IF r.shouldBoost /\ @ > 0 THEN Max(0, @ - 5)
                                         ELSE Min(1000, @ + 1)]
                   /\ newSnakes' = [snakes EXCEPT ![k] =
                                       ClientMoveSnake(snakes[k], r.targetAngle, r.shouldBoost)]
    /\ UNCHANGED << engine, status, timeRemaining, snakes, food, inputRef, inputs,
                    tickCounter, nextId, deadSnakes, kills, borderHit, foodLog, layout,
                    inputsLeft, broadcasts, evaluated >>
    /\ UNCHANGED roomVars

\* the ticks between two evaluations of the bot, as far as the bot's food target
\* goes: a snake collects the item and the food phase filters it out of the list
FoodTaken ==
    /\ ticks < MaxCycles
    /\ food = BotScenes[layout].food          \* one item per run
    /\ botStateRef.currentFoodTarget # NoTarget
    /\ PositionOfId(food, botStateRef.currentFoodTarget) # 0
    /\ food' = SelectSeq(food, LAMBDA f : f.id # botStateRef.currentFoodTarget)
    /\ UNCHANGED << engine, status, timeRemaining, snakes, inputRef, inputs, boostEnergy,
                    tickCounter, nextId, newSnakes, deadSnakes, kills, borderHit, foodLog,
                    ticks, layout, inputsLeft, broadcasts, evaluated >>
    /\ UNCHANGED << botVars, roomVars >>

\* the ticks between two evaluations of the bot, as far as its prey goes: the prey
\* is killed by the border, grows to the bot's score, crosses in front of the bot,
\* or gets away
PreyFares ==
    /\ ticks < MaxCycles
    /\ snakes = BotScenes[layout].snakes      \* one change per run
    /\ botStateRef.huntTarget # NoTarget
    /\ \E k \in { PositionOfId(snakes, botStateRef.huntTarget) } \ {0} :
          /\ snakes[k].isAlive
          /\ LET bot == snakes[BotScenes[layout].bot]
                 head == bot.segments[1]
                 moved(pos, direction) ==
                     [createSnake("client", snakes[k].id, snakes[k].color, pos, direction)
                        EXCEPT !.score = snakes[k].score]
             IN  \E prey \in { Killed(snakes[k]),
                                Grown(snakes[k], bot.score),
                                moved(Offset(head, 60 * U, -20 * U), PI \div 2),
                                moved(Offset(head, -700 * U, 0), PI) } :
                     snakes' = [snakes EXCEPT ![k] = prey]
    /\ UNCHANGED << engine, status, timeRemaining, food, inputRef, inputs, boostEnergy,
                    tickCounter, nextId, newSnakes, deadSnakes, kills, borderHit, foodLog,
                    ticks, layout, inputsLeft, broadcasts, evaluated >>
    /\ UNCHANGED << botVars, roomVars >>

BotNext == BotControl \/ FoodTaken \/ PreyFares

BotSpec == BotInit /\ [][BotNext]_vars

---------------------------------------------------------------------------
(* Claims about the bot controller and the boost gate *)

\* C14: in a tick no agent, human or bot, moves at BOOST_SPEED or has isBoosting
\* set unless its score at the start of the tick is strictly greater than
\* INITIAL_LENGTH
C14_BoostGatedOnScore ==
    [][ticks' # ticks =>
          \A k \in 1..Len(snakes) :
              (snakes[k].isAlive /\ (newSnakes'[k].isBoosting
                                     \/ newSnakes'[k].speed = BOOST_SPEED(engine)))
                  => snakes[k].score > INITIAL_LENGTH * ScoreUnit]_vars

\* a control cycle of a bot that enters it collecting loot with the window expired
ExpiredLootCycle ==
    /\ ticks' # ticks
    /\ botStateRef.collectingLoot
    /\ now' - botStateRef.lootCollectionStart > LOOT_WINDOW

LootCleared(state) ==
    /\ ~state.collectingLoot
    /\ state.lootTargetColor = NoColor
    /\ state.lootPosition = NoPoint

\* C15 as stated: after the call of such a cycle collectingLoot is false, the loot
\* colour and position are cleared and the behaviour returned is not 'loot'
C15_ExpiredLootCleared ==
    [][ExpiredLootCycle =>
          (LootCleared(botStateRef') /\ moveResult'.behavior # "loot")]_vars

\* C15, amended: the behaviour returned by such a cycle is never 'loot', and the
\* loot state is cleared by it unless the wall, agent-avoidance or hunt stage
\* claimed the cycle, which leaves the loot state as it was
C15_ExpiredLootNotPursued ==
    [][ExpiredLootCycle =>
          /\ moveResult'.behavior # "loot"
          /\ IF moveResult'.behavior \in {"wall_avoid", "snake_avoid", "hunt"}
             THEN /\ botStateRef'.collectingLoot
                  /\ botStateRef'.lootTargetColor = botStateRef.lootTargetColor
                  /\ botStateRef'.lootPosition = botStateRef.lootPosition
             ELSE LootCleared(botStateRef')]_vars

\* a first cycle after the window, with the victim's drops still around the kill
\* position, that cleared the loot state and went for ordinary food
C15_Witness ==
    /\ ticks = 1
    /\ BotScenes[layout].victim # 0
    /\ now - Epoch > LOOT_WINDOW
    /\ \E f \in DOMAIN food :
          /\ food[f].color = snakes[BotScenes[layout].victim].color
          /\ DistLess(food[f], snakes[BotScenes[layout].bot].segments[1], 200 * U)
    /\ LootCleared(botStateRef)
    /\ moveResult.behavior = "eat"

\* the food items within the search radius of the bot's head
InSearchRadius ==
    { f \in DOMAIN food :
        distance(snakes[BotScenes[layout].bot].segments[1], food[f]) <= FOOD_RADIUS }

\* a control cycle that no stage before food seeking claims, of a bot that is not
\* pausing (pauseEating false when the cycle starts and when it ends) and has
\* exactly one food item within its search radius
FoodSeekingCycle ==
    /\ ticks' # ticks
    /\ moveResult'.behavior \in {"eat", "wander"}
    /\ ~botStateRef.pauseEating
    /\ ~botStateRef'.pauseEating
    /\ Cardinality(InSearchRadius) = 1

\* C16: such a cycle returns behaviour 'eat' with targetAngle the angle from the
\* bot's head to the item and sets currentFoodTarget to the item's id, wherever
\* the item sits in the food list
C16_SeeksTheOnlyFood ==
    [][FoodSeekingCycle =>
          \A f \in InSearchRadius :
              /\ moveResult'.behavior = "eat"
              /\ moveResult'.targetAngle =
                     angleBetween(snakes[BotScenes[layout].bot].segments[1], food[f])
              /\ botStateRef'.currentFoodTarget = food[f].id]_vars

---------------------------------------------------------------------------
(* Claims about the food phase and the end of the match *)

\* the live agents whose head is within pickup range of item i of the food the
\* last tick offered (the list after the death drops)
InRange(i) ==
    { k \in Agents : /\ snakes[k].isAlive
                     /\ DistLess(HeadOf(snakes, k), foodLog.offered[i], PickupDist) }

FirstOf(S) == CHOOSE k \in S : \A j \in S : k <= j

RECURSIVE ValueOf(_)
ValueOf(S) ==
    IF S = {} THEN 0
    ELSE LET i == CHOOSE i \in S : TRUE
         IN  foodLog.offered[i].value + ValueOf(S \ {i})

CreditedTo(k) == { i \in DOMAIN foodLog.offered : foodLog.who[i] = k }

\* C17: in a tick every item within pickup range of a live head is removed and
\* credited to the first such agent and to no other, every agent's score gain from
\* food is the sum of the values of the items credited to it, and the items out
\* of range of every live head stay in the food list
C17_FoodCollectedOnce ==
    Ticked =>
       /\ \A i \in DOMAIN foodLog.offered :
             IF InRange(i) = {}
             THEN /\ foodLog.who[i] = 0
                  /\ \E j \in DOMAIN food : food[j] = foodLog.offered[i]
             ELSE /\ foodLog.who[i] = FirstOf(InRange(i))
                  /\ \A j \in DOMAIN food : food[j].id # foodLog.offered[i].id
       /\ \A k \in Agents :
             /\ foodLog.gain[k] = ValueOf(CreditedTo(k))
             /\ (snakes[k].isAlive /\ \A i \in DOMAIN kills : kills[i].killerId # snakes[k].id)
                   => snakes[k].score = newSnakes[k].score + foodLog.gain[k] * ScoreUnit

\* a tick in which two live heads were within range of the same item
C17_Witness ==
    /\ Ticked
    /\ \E i \in DOMAIN foodLog.offered :
          /\ Cardinality(InRange(i)) >= 2
          /\ foodLog.who[i] = FirstOf(InRange(i))
          /\ foodLog.gain[foodLog.who[i]] >= foodLog.offered[i].value

\* the record, as the last tick's movement left it, of the agent with the given id
Moved(id) == newSnakes[CHOOSE k \in 1..Len(newSnakes) : newSnakes[k].id = id]

\* the number of items the claim has the j-th agent of deadSnakes drop, and the
\* number it has the agents before it drop
DropCount(j) == CeilDiv(Len(Moved(deadSnakes[j]).segments), 3)
RECURSIVE DropsBefore(_)
DropsBefore(j) == IF j <= 1 THEN 0 ELSE DropsBefore(j - 1) + DropCount(j - 1)

JITTER == 10 * U

\* the last tick appended, for each agent of deadSnakes in turn, one item per
\* segment index 0, 3, 6, ... at that segment (jitter apart), of the victim's
\* colour and, in the client, of value ceil(score / n), and nothing else
DropsAsClaimed ==
    /\ foodLog.dropped = DropsBefore(Len(deadSnakes) + 1)
    /\ Len(foodLog.offered) = foodLog.before + foodLog.dropped
    /\ \A j \in DOMAIN deadSnakes :
          LET victim == Moved(deadSnakes[j])
          IN  \A n \in 1..DropCount(j) :
                 LET item == foodLog.offered[foodLog.before + DropsBefore(j) + n]
                     seg == victim.segments[Seg(3 * (n - 1))]
                 IN  /\ item.color = victim.color
                     /\ Abs(item.x - seg.x) <= JITTER
                     /\ Abs(item.y - seg.y) <= JITTER
                     /\ engine = "client"
                           => item.value * ScoreUnit * Len(victim.segments) >= victim.score
                              /\ (item.value - 1) * ScoreUnit * Len(victim.segments)
                                     < victim.score

\* C18: the tick in which an agent with n segments dies adds exactly ceil(n / 3)
\* items for it, and an agent is in a tick's deadSnakes once, in the tick in which
\* it dies, so that no later tick drops for it again
C18_DropOncePerDeath ==
    [][PlayingTick =>
          /\ DropsAsClaimed'
          /\ \A i, j \in DOMAIN deadSnakes' : deadSnakes'[i] = deadSnakes'[j] => i = j
          /\ \A k \in Agents :
                IF \E j \in DOMAIN deadSnakes' : deadSnakes'[j] = snakes[k].id
                THEN snakes[k].isAlive /\ ~snakes'[k].isAlive
                ELSE snakes'[k].isAlive = snakes[k].isAlive]_vars

\* a client tick in which two agents died, one of them grown, with segment counts
\* that are no multiples of 3
C18_Witness ==
    /\ Ticked
    /\ engine = "client"
    /\ Len(deadSnakes) >= 2
    /\ \A j \in DOMAIN deadSnakes : Len(Moved(deadSnakes[j]).segments) % 3 # 0
    /\ \E j \in DOMAIN deadSnakes : Len(Moved(deadSnakes[j]).segments) > INITIAL_LENGTH
    /\ foodLog.dropped = DropsBefore(Len(deadSnakes) + 1)
    /\ foodLog.dropped > Len(deadSnakes) * CeilDiv(INITIAL_LENGTH, 3)

\* C19: a tick is taken only while the match is playing and strictly decreases
\* timeRemaining; the tick that brings it to zero or below ends the match and no
\* other tick does; nothing ever increases timeRemaining; and with the tick loop
\* running every match reaches 'ended'
C19_MatchEnds ==
    /\ [][ticks' # ticks =>
             /\ status = "playing"
             /\ timeRemaining' < timeRemaining
             /\ status' = IF timeRemaining' <= 0 THEN "ended" ELSE "playing"]_vars
    /\ [][timeRemaining' <= timeRemaining /\ (ticks' = ticks => status' = status)]_vars
    /\ <>(status = "ended")

\* a match that ended on a later tick than its first, the clock at zero or below
C19_Witness ==
    /\ status = "ended"
    /\ timeRemaining <= 0
    /\ ticks >= 2

\* Array.prototype.sort((a, b) => b.score - a.score): the place of entry i, a
\* higher score first and equal scores in their order in the list
Placement(score, i) ==
    1 + Cardinality({ j \in DOMAIN score :
                        score[j] > score[i] \/ (score[j] = score[i] /\ j < i) })

\* endGame(): every player of the room, dead ones included, with the score
\* floored, in descending order of that score
finalScores(players) ==
    LET score == [i \in DOMAIN players |-> Floor(players[i].score)]
    IN  [n \in DOMAIN players |->
            LET i == CHOOSE i \in DOMAIN players : Placement(score, i) = n
            IN  [playerId |-> players[i].id, score |-> score[i],
                 kills |-> players[i].kills]]

\* the client's results on match end: every snake of the game state, in
\* descending order of score, placement 1 first
sortedSnakes(list) ==
    LET score == [i \in DOMAIN list |-> list[i].score]
    IN  [n \in DOMAIN list |->
            LET i == CHOOSE i \in DOMAIN list : Placement(score, i) = n
            IN  [playerId |-> list[i].id, score |-> score[i], kills |-> list[i].kills]]

\* the reported winner: finalScores[0] of the server's match_end, players[0] of
\* the client's results page
winnerId ==
    LET results == IF engine = "server" THEN finalScores(snakes) ELSE sortedSnakes(snakes)
    IN  IF results = << >> THEN NoTarget ELSE results[1].playerId

AliveAtEnd == { i \in DOMAIN snakes : snakes[i].isAlive }

\* C20: when the match has ended with exactly one agent alive, that agent is the
\* reported winner; when several are alive, the reported winner is an alive agent
\* whose score no other alive agent exceeds
C20_SurvivorWins ==
    (status = "ended" /\ AliveAtEnd # {}) =>
        \E i \in AliveAtEnd :
            /\ snakes[i].id = winnerId
            /\ \A j \in AliveAtEnd : snakes[j].score <= snakes[i].score

\* marked dead by the last tick
DiedInTick(k) == LiveIn(k) /\ ~snakes[k].isAlive

\* C21: an agent that a tick marks dead leaves the tick with the kill count and
\* the score it had after the tick's movement: no kill and no kill score is
\* credited to it in that tick, in either engine
C21_NoCreditToTheDying ==
    Ticked => \A k \in Agents :
                 DiedInTick(k) => /\ snakes[k].kills = newSnakes[k].kills
                                  /\ snakes[k].score = newSnakes[k].score

\* the same property on the client alone
C21_ClientNoCreditToTheDying ==
    engine = "client" => C21_NoCreditToTheDying

\* a client tick that marked dead an agent named as killer by one of its records
C21_ClientWitness ==
    /\ Ticked
    /\ engine = "client"
    /\ \E k \in Agents, i \in DOMAIN kills :
          DiedInTick(k) /\ kills[i].killerId = snakes[k].id

\* the orders in which a list of n agents can appear
Orders(n) == { p \in [1..n -> 1..n] : \A i, j \in 1..n : i # j => p[i] # p[j] }
Reordered(list, p) == [k \in 1..Len(list) |-> list[p[k]]]

\* what the client's collision phase decides for a snapshot: who dies, who is
\* credited with whom
Outcome(list) ==
    LET hits == ClientCollisions(list)
    IN  [ dead  |-> { hits.dead[i] : i \in DOMAIN hits.dead },
          kills |-> { hits.kills[i] : i \in DOMAIN hits.kills } ]

\* C22: for the post-movement snapshot of every client tick, the agents the
\* collision phase kills and the kills it credits are the same for every order
\* of the agents in the list
C22_CollisionOrderIndependent ==
    (Ticked /\ engine = "client") =>
        \A p \in Orders(Len(newSnakes)) :
            Outcome(Reordered(newSnakes, p)) = Outcome(newSnakes)

\* the head of k, as the last tick moved it, is closer than c to a segment of
\* another agent alive in the collision phase, or to a segment of its own body
\* from the first index the self check reads
NearSegment(k, c) ==
    \E j \in Agents :
        /\ LiveIn(j)
        /\ \E i \in (IF j = k THEN 3 ELSE 0)..(Len(newSnakes[j].segments) - 1) :
              DistLess(HeadOf(newSnakes, k), newSnakes[j].segments[Seg(i)], c)

\* C23: in either engine, an agent a tick marks dead other than at the border has
\* its head closer than 0.85 x (headRadius + segmentRadius) to a segment
C23_DeathsWithinMultiplier ==
    Ticked => \A k \in Agents :
                 (DiedInTick(k) /\ ~Has(borderHit, snakes[k].id))
                     => NearSegment(k, ClientCollisionDist)

\* the same property on the client alone
C23_ClientDeathsWithinMultiplier ==
    engine = "client" => C23_DeathsWithinMultiplier

\* a client tick with a head-to-head death and a head-to-body death
C23_ClientWitness ==
    /\ Ticked
    /\ engine = "client"
    /\ \E k \in Agents : DiedInTick(k) /\ \E j \in Agents \ {k} : HeadsTouch(k, j, ClientCollisionDist)
    /\ \E k \in Agents : DiedInTick(k) /\ \E j \in Agents \ {k} :
                            TouchesBody(k, j, ClientCollisionDist)

\* C24: from its creation onward and at the end of every tick, the heading of
\* every live agent lies in (-pi, pi]
C24_HeadingNormalised ==
    \A k \in Agents :
        snakes[k].isAlive => (snakes[k].direction > -PI /\ snakes[k].direction <= PI)

\* the angles congruent to target - direction of magnitude pi at most: the
\* smallest signed angle from the heading to the target (both signs at pi)
SignedAngles(direction, target) ==
    { a \in { target - direction + m * TWO_PI : m \in -4..4 } : Abs(a) <= PI }

\* the heading went from direction to new by the smallest signed angle to the
\* target, cut to TURN_RATE in magnitude
TurnedToward(direction, target, new) ==
    \E a \in SignedAngles(direction, target) :
        new - direction = IF Abs(a) > TURN_RATE THEN Sign(a) * TURN_RATE ELSE a

\* the target angles the movement step of the coming tick may be given for the
\* agent at position k
TargetAngles(k) ==
    IF engine = "server"
    THEN { angleBetween(HeadOf(snakes, k), Point(inputs[k].targetX, inputs[k].targetY)) }
    ELSE IF snakes[k].id = playerId
    THEN { angleBetween(HeadOf(snakes, k), Point(inputRef.targetX, inputRef.targetY)) }
    ELSE IF k \in EvaluatingBots(snakes, tickCounter')
    THEN { m.targetAngle : m \in calculateBotMove(snakes[k], boostEnergy[k]) }
    ELSE { snakes[k].direction }

\* C25: in every tick of either engine the heading of a live agent changes by at
\* most TURN_RATE in magnitude, in the direction of the smallest signed angle
\* from its heading to its target angle, and by exactly that angle when the
\* angle is within TURN_RATE
C25_TurnRateBound ==
    [][PlayingTick =>
         \A k \in Agents :
             snakes[k].isAlive =>
                 /\ Abs(newSnakes'[k].direction - snakes[k].direction) <= TURN_RATE
                 /\ snakes'[k].direction = newSnakes'[k].direction
                 /\ \E target \in TargetAngles(k) :
                       TurnedToward(snakes[k].direction, target, newSnakes'[k].direction)]_vars

\* the first tick of a server room in which one agent turned by a small angle,
\* all of it, and another by TURN_RATE, its target being further off
C25_Witness ==
    /\ Ticked /\ ticks = 1
    /\ \E k \in Agents :
          LET turn == snakes[k].direction - Layouts[layout].spawns[k].direction
          IN  0 < Abs(turn) /\ Abs(turn) < TURN_RATE
    /\ \E k \in Agents :
          Abs(snakes[k].direction - Layouts[layout].spawns[k].direction) = TURN_RATE

\* the resolution of the model's coordinates: positions are rounded to 1/100 of
\* a unit, and a distance between two of them is exact to 2/100
Resolution == (2 * U) \div 100

\* every segment within SEGMENT_SPACING of its predecessor
Connected(segments) ==
    \A i \in 2..Len(segments) :
        ~DistMore(segments[i - 1], segments[i], SEGMENT_SPACING + Resolution)

\* no segment of the old chain is farther than SEGMENT_SPACING from its place in
\* the new one
NoTeleport(old, new) ==
    \A i \in 1..Min(Len(old), Len(new)) :
        ~DistMore(old[i], new[i], SEGMENT_SPACING + Resolution)

\* C26: through every tick of either engine, the body of an agent alive when the
\* tick began stays a chain with each segment within SEGMENT_SPACING of its
\* predecessor, after the movement and after the tick, and no segment moves more
\* than SEGMENT_SPACING in the tick
C26_BodyChainConnected ==
    [][PlayingTick =>
         \A k \in Agents :
             snakes[k].isAlive =>
                 /\ Connected(snakes[k].segments)
                 /\ Connected(newSnakes'[k].segments)
                 /\ snakes'[k].segments = newSnakes'[k].segments
                 /\ NoTeleport(snakes[k].segments, newSnakes'[k].segments)]_vars

\* a client tick in which a grown agent, boosting, was clamped at the border
C26_Witness ==
    /\ Ticked
    /\ \E k \in Agents :
          /\ LiveIn(k)
          /\ newSnakes[k].hitBorder /\ newSnakes[k].isBoosting
          /\ Len(newSnakes[k].segments) > INITIAL_LENGTH
          /\ HeadOf(newSnakes, k).x = SEGMENT_RADIUS

\* C27: every item of the food list, spawned or dropped, has one of the four
\* values of createFood
C27_FoodValueTiers ==
    \A i \in DOMAIN food : food[i].value \in FoodTiers

---------------------------------------------------------------------------
(* The staggering of the bot evaluations over the ticks of the client: the   *)
(* tick counter, the botIndex of the live bots and the deaths a tick applies. *)
(* The movement, collision and food steps, which do not enter botIndex, are  *)
(* left out: any live bot may die in any tick.                               *)

StaggerHorizon == 13
StaggerBots == 3
MaxDeaths == 1

\* the player and the bots, in the order of the list, far from each other
StaggerSnakes ==
    [k \in 1..(StaggerBots + 1) |->
        createSnake("client", k, "#00ffff", Point(1000 * U * k, 1000 * U), 0)]

StaggerInit ==
    /\ layout = 1
    /\ engine = "client"
    /\ status = "playing"
    /\ timeRemaining = MATCH_DURATION
    /\ snakes = StaggerSnakes
    /\ food = << >>
    /\ inputRef = Input(0, 0, FALSE)
    /\ inputs = << >>
    /\ boostEnergy = [k \in 1..Len(StaggerSnakes) |-> 500]
    /\ tickCounter = 0
    /\ nextId = 1
    /\ newSnakes = StaggerSnakes
    /\ deadSnakes = << >>
    /\ kills = << >>
    /\ borderHit = << >>
    /\ foodLog = EmptyLog(<< >>, Len(StaggerSnakes))
    /\ ticks = 0
    /\ inputsLeft = 0
    /\ broadcasts = << >>
    /\ evaluated = [k \in 1..Len(StaggerSnakes) |-> NotEvaluated]
    /\ NoRooms
    /\ now = 0
    /\ moveResult = NoMove
    /\ botStateRef = << >>

LiveBots == { k \in 1..Len(snakes) : snakes[k].isAlive /\ snakes[k].id # playerId }
Dead == { k \in 1..Len(snakes) : ~snakes[k].isAlive }

\* one tick: the counter is advanced, the bots whose botIndex matches it are
\* evaluated, and the tick's deaths are applied
StaggerTick ==
    /\ ticks < StaggerHorizon
    /\ ticks' = ticks + 1
    /\ tickCounter' = tickCounter + 1
    /\ LET botMoves == [k \in EvaluatingBots(snakes, tickCounter') |->
                           [targetAngle |-> snakes[k].direction, shouldBoost |-> FALSE]]
       IN  evaluated' = Evaluations(evaluated, botMoves, tickCounter')
    /\ \E dying \in SUBSET LiveBots :
          /\ Cardinality(dying) <= 1
          /\ Cardinality(Dead) + Cardinality(dying) <= MaxDeaths
          /\ deadSnakes' = [i \in 1..Cardinality(dying) |-> snakes[CHOOSE k \in dying : TRUE].id]
          /\ snakes' = [k \in 1..Len(snakes) |->
                           IF k \in dying THEN [snakes[k] EXCEPT !.isAlive = FALSE]
                           ELSE snakes[k]]
    /\ UNCHANGED << engine, status, timeRemaining, food, inputRef, inputs, boostEnergy, nextId,
                    newSnakes, kills, borderHit, foodLog, layout, inputsLeft, broadcasts >>
    /\ UNCHANGED << botVars, roomVars >>

StaggerNext == StaggerTick

StaggerSpec == StaggerInit /\ [][StaggerNext]_vars

\* C29: after every client tick, every live bot has run its decision pipeline in
\* one of the last 6 ticks, also when other bots died in them
C29_EvaluatedEverySixTicks ==
    \A k \in LiveBots : tickCounter - evaluated[k].at < 6

\* the same while no bot has died
C29_EvaluatedWhileNoneDies ==
    Dead = {} => C29_EvaluatedEverySixTicks

\* two rounds of evaluations with no death
C29_NoDeathWitness ==
    /\ Dead = {}
    /\ tickCounter >= 12
    /\ \A k \in LiveBots : evaluated[k].at > 6

\* a live bot with an evaluation behind it that the coming client tick does not
\* evaluate
HoldsCommand(k) ==
    /\ engine = "client"
    /\ snakes[k].isAlive /\ snakes[k].id # playerId
    /\ evaluated[k].at > 0
    /\ k \notin EvaluatingBots(snakes, tickCounter')

\* C30: on a tick that does not evaluate a bot, the movement step turns the bot
\* toward the targetAngle of its most recent evaluation and moves it with that
\* evaluation's shouldBoost
C30_HoldsLastCommand ==
    [][PlayingTick =>
         \A k \in Agents :
             HoldsCommand(k) =>
                 /\ newSnakes'[k].isBoosting = evaluated[k].shouldBoost
                 /\ newSnakes'[k].direction
                       = SmoothTurn(snakes[k].direction, evaluated[k].targetAngle)]_vars

---------------------------------------------------------------------------
(* Claims about the stages of calculateBotMove *)

\* the bot of the scene and what its call of calculateBotMove asks of the world
Bot == snakes[BotScenes[layout].bot]
Asked == Queries(Bot, snakes, food, botStateRef)

\* the stages in the order of their priority, by the behaviour they return, and
\* the part of the bot state that belongs to each
StageOrder == << "wall_avoid", "snake_avoid", "hunt", "loot", "eat", "wander" >>

StateOf(stage, s) ==
    IF stage = "hunt" THEN << s.huntTarget, s.huntStartTime, s.lastHuntAttempt >>
    ELSE IF stage = "loot"
         THEN << s.collectingLoot, s.lootTargetColor, s.lootCollectionStart, s.lootPosition >>
    ELSE IF stage = "eat"
         THEN << s.currentFoodTarget, s.foodTargetAge, s.pauseEating, s.pauseEatingUntil >>
    ELSE IF stage = "wander" THEN << s.lastDirectionChange >>
    ELSE << >>

Rank(stage) == CHOOSE i \in DOMAIN StageOrder : StageOrder[i] = stage

WallResult(q) == q.wallAngle.some
SnakeResult(q, attack) == q.snakeAvoid[attack].some /\ q.snakeAvoid[attack].danger > 300

\* the stages before the one that returned left no result behind, and the first
\* stage with a result is the one that returned
FirstResultReturned(q, move, after) ==
    /\ WallResult(q) <=> move.behavior = "wall_avoid"
    /\ (~WallResult(q) /\ \A attack \in BOOLEAN : SnakeResult(q, attack))
           => move.behavior = "snake_avoid"
    /\ move.behavior = "snake_avoid" => \E attack \in BOOLEAN : SnakeResult(q, attack)
    /\ Rank(move.behavior) > Rank("snake_avoid")
           => \E attack \in BOOLEAN : ~SnakeResult(q, attack)
    /\ Rank(move.behavior) > Rank("hunt") => after.huntTarget = NoTarget
    /\ Rank(move.behavior) > Rank("loot") => ~after.collectingLoot
    /\ Rank(move.behavior) > Rank("eat")
           => after.pauseEating \/ after.currentFoodTarget = NoTarget

\* the heading and the boost returned are those of the stage that returned
ResultOfStage(q, move, after) ==
    /\ move.behavior = "wall_avoid"
           => /\ move.targetAngle = q.wallAngle.angle
              /\ move.shouldBoost
                    = (q.wallDist < 50 * U /\ boostEnergy[BotScenes[layout].bot] > 400)
    /\ move.behavior = "snake_avoid"
           => \E attack \in BOOLEAN :
                 SnakeResult(q, attack) /\ move.targetAngle = q.snakeAvoid[attack].angle
    /\ move.behavior = "hunt"
           => /\ PositionOfId(snakes, after.huntTarget) # 0
              /\ move.targetAngle
                    = calculateHuntAngle(Bot, snakes[PositionOfId(snakes, after.huntTarget)])
    /\ move.behavior = "loot"
           => /\ q.lootFood # 0
              /\ move.targetAngle = angleBetween(Bot.segments[1], food[q.lootFood])
    /\ move.behavior = "eat"
           => /\ PositionOfId(food, after.currentFoodTarget) # 0
              /\ move.targetAngle
                    = angleBetween(Bot.segments[1],
                                   food[PositionOfId(food, after.currentFoodTarget)])
    /\ move.shouldBoost => after.lastBoostTime = now' \/ move.behavior = "wall_avoid"

\* the state of the stages after the one that returned is as the cycle found it
LaterStagesUntouched(move, before, after) ==
    \A stage \in { StageOrder[i] : i \in DOMAIN StageOrder } :
        Rank(stage) > Rank(move.behavior) => StateOf(stage, after) = StateOf(stage, before)

\* C31: a control cycle returns the behaviour, heading and boost of the first
\* stage, in the order wall avoidance, agent avoidance, hunting, loot, food,
\* wandering, that produced a result, and leaves the state of the later stages
\* unchanged
C31_StrictPriority ==
    [][ticks' # ticks =>
          \E q \in { Asked } :
              /\ FirstResultReturned(q, moveResult', botStateRef')
              /\ ResultOfStage(q, moveResult', botStateRef')
              /\ LaterStagesUntouched(moveResult', botStateRef, botStateRef')]_vars

\* a cycle claimed by a stage before food seeking, of a bot that was collecting
\* loot and had an item within its food search radius
C31_Witness ==
    /\ ticks = 1
    /\ moveResult.behavior \in {"wall_avoid", "snake_avoid", "hunt"}
    /\ botStateRef.collectingLoot
    /\ botStateRef.currentFoodTarget = NoTarget
    /\ InSearchRadius # {}

---------------------------------------------------------------------------
(* Claims about commanded inputs *)

\* no input event has arrived since the match was set up: the client's inputRef
\* and the server's input slots hold what they were created with
NoInputYet ==
    /\ inputsLeft = MaxInputs
    /\ engine = "client" => inputRef = Input(0, 0, FALSE)

\* C32: a tick before any input has arrived leaves the heading of every live
\* human agent as it was and moves it without boost
C32_MissingInputHoldsHeading ==
    [][(PlayingTick /\ NoInputYet) =>
          \A k \in Agents :
              (IsHuman(k) /\ snakes[k].isAlive) =>
                  /\ newSnakes'[k].direction = snakes[k].direction
                  /\ ~newSnakes'[k].isBoosting]_vars

---------------------------------------------------------------------------
(* Claims about stale targets *)

Present(foodList, id) == PositionOfId(foodList, id) # 0

\* a control cycle entered with a stored food target that is no longer in the
\* food list, and whose food stage runs
StaleFoodCycle ==
    /\ ticks' # ticks
    /\ botStateRef.currentFoodTarget # NoTarget
    /\ ~Present(food, botStateRef.currentFoodTarget)
    /\ moveResult'.behavior \in {"eat", "wander"}

\* whenever the behaviour returned is 'eat', currentFoodTarget is the id of an
\* item of the food list of the call
EatsPresentFood ==
    (ticks' # ticks /\ moveResult'.behavior = "eat")
        => Present(food, botStateRef'.currentFoodTarget)

\* C33 as stated: 'eat' is only returned with a target in the food list, and a
\* cycle whose food stage runs with a stale target sets currentFoodTarget to null
\* and foodTargetAge to 0
C33_StaleFoodTargetCleared ==
    [][/\ EatsPresentFood
       /\ StaleFoodCycle =>
              /\ botStateRef'.currentFoodTarget = NoTarget
              /\ botStateRef'.foodTargetAge = 0]_vars

\* C33, amended: 'eat' is only returned with a target in the food list; a cycle
\* whose food stage runs with a stale target and does not pause eating drops the
\* target, for null or for an item of the list, with foodTargetAge 0 when the
\* failed lookup cleared it, unchanged when the re-evaluation found no food, and
\* 1 when it found an item; a cycle that pauses eating keeps the stale target
C33_StaleFoodTargetNotFollowed ==
    [][/\ EatsPresentFood
       /\ StaleFoodCycle =>
              IF botStateRef'.pauseEating
              THEN /\ moveResult'.behavior = "wander"
                   /\ botStateRef'.currentFoodTarget = botStateRef.currentFoodTarget
                   /\ botStateRef'.foodTargetAge = botStateRef.foodTargetAge
              ELSE IF moveResult'.behavior = "eat"
                   THEN /\ Present(food, botStateRef'.currentFoodTarget)
                        /\ botStateRef'.foodTargetAge = 1
                   ELSE /\ botStateRef'.currentFoodTarget = NoTarget
                        /\ botStateRef'.foodTargetAge \in {0, botStateRef.foodTargetAge}]_vars

\* the second cycle of a bot whose first target was collected in between: the
\* lookup failed and the cycle cleared the target and wandered
C33_Witness ==
    /\ ticks = 2
    /\ Len(food) < Len(BotScenes[layout].food)
    /\ moveResult.behavior = "wander"
    /\ ~botStateRef.pauseEating
    /\ botStateRef.currentFoodTarget = NoTarget
    /\ botStateRef.foodTargetAge = 0

\* the hunt target stored in a bot state is prey the bot may pursue at time t:
\* an agent of the snapshot, alive, not the bot, its head within 600 units, its
\* score at most 0.95 x the bot's, hunted for at most 15 s
ValidPrey(state, t) ==
    LET at == PositionOfId(snakes, state.huntTarget)
    IN  /\ state.huntTarget # NoTarget
        /\ at # 0
        /\ snakes[at].isAlive
        /\ snakes[at].id # Bot.id
        /\ distance(Bot.segments[1], snakes[at].segments[1]) <= 600 * U
        /\ snakes[at].score * 100 <= Bot.score * 95
        /\ t - state.huntStartTime <= 15000

InputEvent == inputsLeft' < inputsLeft

\* the commanded-input slot of the human agent at position k
Slot(k) == IF engine = "client" THEN inputRef ELSE inputs[k]

\* an input event writes one agent's slot and nothing else
OnlyTheSlot ==
    /\ UNCHANGED << engine, status, timeRemaining, snakes, newSnakes, food, boostEnergy,
                    tickCounter, nextId, deadSnakes, kills, borderHit, foodLog, ticks,
                    broadcasts, evaluated >>
    /\ IF engine = "client" THEN inputs' = inputs
       ELSE /\ inputRef' = inputRef
            /\ Cardinality({ k \in DOMAIN inputs : inputs'[k] # inputs[k] }) <= 1

\* a tick steers every live human agent toward the target its slot holds when the
\* tick starts, and boosts it only if the slot asks for boost
UsesTheSlot ==
    \A k \in Agents :
        (IsHuman(k) /\ snakes[k].isAlive) =>
            /\ newSnakes'[k].direction
                  = SmoothTurn(snakes[k].direction,
                               angleBetween(snakes[k].segments[1],
                                            Point(Slot(k).targetX, Slot(k).targetY)))
            /\ newSnakes'[k].isBoosting => Slot(k).isBoosting

\* C35: an input event, whenever it arrives and however many arrive, changes only
\* the commanded-input slot of its agent, and a tick uses the value the slot holds
\* when it starts, which no tick writes
C35_InputDecoupledFromTicks ==
    [][/\ InputEvent => OnlyTheSlot
       /\ PlayingTick => UsesTheSlot
       /\ ticks' # ticks => (inputRef' = inputRef /\ inputs' = inputs)]_vars

\* a server tick taken after a burst of input events: one player turned away from
\* its heading toward the target its slot holds, another player's slot is as the
\* join created it
C35_Witness ==
    /\ engine = "server" /\ Ticked /\ inputsLeft = 0
    /\ \E k, j \in Agents :
          /\ LiveIn(k) /\ inputs[k] \in Layouts[layout].inputSet
          /\ newSnakes[k].direction # InitialSnakes(engine, Layouts[layout].spawns)[k].direction
          /\ j # k /\ inputs[j] \notin Layouts[layout].inputSet

---------------------------------------------------------------------------
(* The broad phase of the client's head-to-body pass, on post-movement       *)
(* snapshots drawn around the corners of the spatial cells: a probe snake,   *)
(* a body whose consecutive segments are at most SEGMENT_SPACING apart, and  *)
(* a dead snake lying under the probe's head                                 *)

LongBody == 61          \* segments of the longer body

\* the step from a segment to the one before it: axis-parallel and diagonal, of
\* length SEGMENT_SPACING at most
Steps == { << 800, 0 >>, << 0, 800 >>, << -800, 0 >>, << 0, -800 >>, << 565, -565 >> }

\* where the body's head lies: inside a cell corner, and on a cell's border
Origins == { Point(210000, 210000), Point(219900, 200000) }

\* the probe's head relative to a segment of the body: two within the collision
\* distance of 20.4, one beyond it
ProbeOffsets == { << 1500, 0 >>, << 0, -2000 >>, << 2100, 0 >> }

\* a snake of n segments from head back in steps of -step, turning a right angle
\* after segment bend
Lying(id, head, step, n, bend) ==
    [createSnake("client", id, "#ff00ff", head, 0) EXCEPT
        !.score = n * ScoreUnit,
        !.segments =
            [i \in 1..n |->
                LET k == i - 1
                    a == Min(k, bend)
                    b == k - a
                IN  Point(head.x - a * step[1] + b * step[2],
                          head.y - a * step[2] - b * step[1])]]

Snapshots ==
    { LET body == Lying(2, origin, step, n, bend)
          i == IF place > 0 THEN place ELSE n + place
          at == body.segments[Seg(i)]
          head == Point(at.x + off[1], at.y + off[2])
      IN  << createSnake("client", playerId, "#00ffff", head, 0),
             body,
             Killed(Lying(3, Point(head.x - 800, head.y), << 800, 0 >>, INITIAL_LENGTH,
                          INITIAL_LENGTH)) >> :
        origin \in Origins, step \in Steps, n \in {INITIAL_LENGTH, LongBody},
        bend \in {4, LongBody}, place \in {1, 2, -2, -1}, off \in ProbeOffsets }

IndexInit ==
    \E list \in Snapshots :
        /\ layout = 1
        /\ engine = "client"
        /\ status = "playing"
        /\ timeRemaining = MATCH_DURATION
        /\ snakes = list
        /\ food = << >>
        /\ inputRef = Input(0, 0, FALSE)
        /\ inputs = << >>
        /\ boostEnergy = [k \in 1..Len(list) |-> 500]
        /\ tickCounter = 0
        /\ nextId = 1
        /\ newSnakes = list
        /\ deadSnakes = << >>
        /\ kills = << >>
        /\ borderHit = << >>
        /\ foodLog = EmptyLog(<< >>, Len(list))
        /\ ticks = 0
        /\ inputsLeft = 0
        /\ broadcasts = << >>
        /\ evaluated = [k \in 1..Len(list) |-> NotEvaluated]
        /\ NoRooms
        /\ now = 0
        /\ moveResult = NoMove
        /\ botStateRef = << >>

\* the collision phase of the tick on the snapshot
IndexedCollisions ==
    /\ ticks = 0
    /\ ticks' = 1
    /\ \E hits \in { ClientCollisions(newSnakes) } :
          /\ deadSnakes' = hits.dead
          /\ kills' = hits.kills
    /\ UNCHANGED << engine, status, timeRemaining, snakes, food, inputRef, inputs, boostEnergy,
                    tickCounter, nextId, newSnakes, borderHit, foodLog, layout, inputsLeft,
                    broadcasts, evaluated >>
    /\ UNCHANGED << botVars, roomVars >>

IndexNext == IndexedCollisions

IndexSpec == IndexInit /\ [][IndexNext]_vars

\* the head-to-body pass with every snake of the list as a candidate
AllIds(list) == [k \in 1..Len(list) |-> list[k].id]

RECURSIVE ExhaustivePass(_, _, _)
ExhaustivePass(list, i, acc) ==
    IF i > Len(list) THEN acc
    ELSE IF ~list[i].isAlive \/ Has(acc.dead, list[i].id)
    THEN ExhaustivePass(list, i + 1, acc)
    ELSE ExhaustivePass(list, i + 1, HeadToBodyInner(list, i, AllIds(list), 1, acc))

ExhaustiveCollisions(list) ==
    ExhaustivePass(list, 1,
        HeadToHeadPass(list, 1,
            [dead |-> ClientBorderPass(list, 1, << >>), kills |-> << >>, pairs |-> {}]))

Range(seq) == { seq[i] : i \in DOMAIN seq }

\* the candidates the index returns for the head of the snake at position k
Candidates(k) ==
    Range(getNearbySnakeIds(newSnakes, HeadOf(newSnakes, k).x, HeadOf(newSnakes, k).y))

NarrowPhaseHit(k, o) ==
    /\ k # o /\ newSnakes[k].isAlive /\ newSnakes[o].isAlive
    /\ ClientCheckSnakeCollision(HeadOf(newSnakes, k), newSnakes[o], FALSE)

\* C36: every live agent that checkSnakeCollision reports as hit by a head is among
\* the candidates the spatial index returns for that head, no dead agent is among
\* them, and the head-to-body deaths found through the index are those found by
\* testing every live agent
C36_IndexHidesNoHit ==
    /\ \A k \in 1..Len(newSnakes) :
           \E candidates \in { Candidates(k) } :
               \A o \in 1..Len(newSnakes) :
                   /\ NarrowPhaseHit(k, o) => newSnakes[o].id \in candidates
                   /\ newSnakes[o].id \in candidates => newSnakes[o].isAlive
    /\ ticks = 1 => Range(deadSnakes) = Range(ExhaustiveCollisions(newSnakes).dead)

\* the probe died on a segment of the long body, the body's head more than two
\* cells away from the probe's head, with the dead snake lying under it
C36_Witness ==
    /\ ticks = 1
    /\ [killerId |-> 2, victimId |-> playerId] \in Range(kills)
    /\ LET mine == getCellKey(HeadOf(newSnakes, 1).x, HeadOf(newSnakes, 1).y)
           its == getCellKey(HeadOf(newSnakes, 2).x, HeadOf(newSnakes, 2).y)
       IN  Abs(mine[1] - its[1]) > 2 \/ Abs(mine[2] - its[2]) > 2
    /\ ~newSnakes[3].isAlive
    /\ DistLess(HeadOf(newSnakes, 1), newSnakes[3].segments[2], ClientCollisionDist)

\* C37: whenever the quick-reject of checkSnakeCollision turns a head away from a
\* live snake, none of that snake's checked body segments is within collision
\* distance of the head
C37_QuickRejectMissesNothing ==
    \A k, o \in 1..Len(newSnakes) :
        (k # o /\ newSnakes[k].isAlive /\ newSnakes[o].isAlive
              /\ QuickReject(HeadOf(newSnakes, k), newSnakes[o]))
            => ~ClientSegmentHit(HeadOf(newSnakes, k), newSnakes[o].segments, 1, 2)

---------------------------------------------------------------------------
(* The lobby of the game server: rooms, and the events on the sockets of     *)
(* handleConnection. A player's entry is followed as far as its socket; its  *)
(* snake and input take no part in joining and leaving.                      *)

MaxSockets == 2         \* connections explored
MaxJoins == 2           \* 'join' messages explored per socket
MaxLeaves == 1          \* 'leave' messages explored per socket
MaxErrors == 1          \* error events explored per socket
TOTAL_PLAYERS == 30

Sockets == 1..MaxSockets
MessageIds == { "x", "y" }      \* message.playerId of a 'join'
NoRoom == 0                     \* null
NoPlayer == "null"

Put(map, key, value) == [k \in DOMAIN map \cup {key} |-> IF k = key THEN value ELSE map[k]]
Drop(map, key) == [k \in DOMAIN map \ {key} |-> map[k]]

gameVars == << engine, status, timeRemaining, snakes, food, inputRef, inputs, boostEnergy,
               tickCounter, nextId, newSnakes, deadSnakes, kills, borderHit, foodLog, ticks,
               layout, inputsLeft, broadcasts, evaluated >>

RoomInit ==
    /\ layout = 1
    /\ engine = "server"
    /\ status = "waiting"
    /\ timeRemaining = MATCH_DURATION
    /\ snakes = << >>
    /\ food = << >>
    /\ inputRef = Input(0, 0, FALSE)
    /\ inputs = << >>
    /\ boostEnergy = << >>
    /\ tickCounter = 0
    /\ nextId = 1
    /\ newSnakes = << >>
    /\ deadSnakes = << >>
    /\ kills = << >>
    /\ borderHit = << >>
    /\ foodLog = EmptyLog(<< >>, 0)
    /\ ticks = 0
    /\ inputsLeft = 0
    /\ broadcasts = << >>
    /\ evaluated = << >>
    /\ now = 0
    /\ moveResult = NoMove
    /\ botStateRef = << >>
    /\ rooms = << >>
    /\ connections = [s \in Sockets |->
                         [readyState |-> "OPEN", room |-> NoRoom, playerId |-> NoPlayer,
                          joined |-> {}, member |-> {}, joins |-> 0, leaves |-> 0,
                          errors |-> 0]]
    /\ outbox = << >>
    /\ roomsCreated = 0

\* findOrCreateRoom(): the id of the first waiting room with a free place, or a
\* fresh id
findOrCreateRoom ==
    LET free == { id \in DOMAIN rooms :
                    /\ rooms[id].status = "waiting"
                    /\ Cardinality(DOMAIN rooms[id].players) < TOTAL_PLAYERS }
    IN  IF free # {} THEN CHOOSE id \in free : \A other \in free : id <= other
        ELSE roomsCreated + 1

\* broadcast(room, message, excludeId): the sockets the message is sent to
broadcast(players, excludeId, conns) ==
    { players[id] : id \in { p \in DOMAIN players :
                               p # excludeId /\ conns[players[p]].readyState = "OPEN" } }

\* socket.onmessage, case 'join'
Join ==
    \E s \in Sockets, newPlayerId \in MessageIds :
        /\ connections[s].readyState = "OPEN"
        /\ connections[s].joins < MaxJoins
        /\ LET id == findOrCreateRoom
               room == IF id \in DOMAIN rooms THEN rooms[id]
                       ELSE [status |-> "waiting", players |-> << >>]
               players == Put(room.players, newPlayerId, s)
           IN  /\ rooms' = Put(rooms, id, [room EXCEPT !.players = players])
               /\ roomsCreated' = IF id \in DOMAIN rooms THEN roomsCreated ELSE id
               /\ connections' = [connections EXCEPT ![s] =
                                      [@ EXCEPT !.room = id, !.playerId = newPlayerId,
                                                !.joined = @ \cup {<< id, newPlayerId >>},
                                                !.member = @ \cup {<< id, newPlayerId >>},
                                                !.joins = @ + 1]]
               /\ outbox' = outbox \o
                     << [type |-> "player_joined", roomId |-> id, playerId |-> newPlayerId,
                         to |-> broadcast(players, newPlayerId, connections)],
                        [type |-> "room_joined", roomId |-> id, playerId |-> newPlayerId,
                         to |-> {s}] >>
    /\ UNCHANGED << gameVars, botVars >>

\* handleDisconnect() of the connection of socket s, the sockets' states being
\* conns: the rooms and the messages it leaves
handleDisconnect(s, conns) ==
    LET c == conns[s]
    IN  IF c.room = NoRoom \/ c.playerId = NoPlayer
        THEN [rooms |-> rooms, outbox |-> outbox]
        ELSE LET players == IF c.room \in DOMAIN rooms THEN rooms[c.room].players
                            ELSE << >>      \* the room object is no longer in the map
                 remaining == Drop(players, c.playerId)
                 left == [type |-> "player_left", roomId |-> c.room, playerId |-> c.playerId,
                          to |-> broadcast(remaining, NoPlayer, conns)]
             IN  [rooms |-> IF c.room \notin DOMAIN rooms THEN rooms
                            ELSE IF DOMAIN remaining = {} THEN Drop(rooms, c.room)
                            ELSE Put(rooms, c.room, [rooms[c.room] EXCEPT !.players = remaining]),
                  outbox |-> Append(outbox, left)]

\* what the connection of socket s remembers after handleDisconnect: everything
Disconnected(c) == [c EXCEPT !.member = @ \ {<< c.room, c.playerId >>}]

\* socket.onmessage, case 'leave'
Leave ==
    \E s \in Sockets :
        /\ connections[s].readyState = "OPEN"
        /\ connections[s].leaves < MaxLeaves
        /\ \E after \in { handleDisconnect(s, connections) } :
              /\ rooms' = after.rooms
              /\ outbox' = after.outbox
        /\ connections' = [connections EXCEPT ![s] =
                               [Disconnected(@) EXCEPT !.leaves = @ + 1]]
    /\ UNCHANGED << gameVars, botVars, roomsCreated >>

\* socket.onclose
SocketClose ==
    \E s \in Sockets :
        /\ connections[s].readyState = "OPEN"
        /\ \E conns \in { [connections EXCEPT ![s].readyState = "CLOSED"] } :
              /\ \E after \in { handleDisconnect(s, conns) } :
                    /\ rooms' = after.rooms
                    /\ outbox' = after.outbox
              /\ connections' = [conns EXCEPT ![s] = Disconnected(@)]
    /\ UNCHANGED << gameVars, botVars, roomsCreated >>

\* socket.onerror
SocketError ==
    \E s \in Sockets :
        /\ connections[s].readyState = "OPEN"
        /\ connections[s].errors < MaxErrors
        /\ \E after \in { handleDisconnect(s, connections) } :
              /\ rooms' = after.rooms
              /\ outbox' = after.outbox
        /\ connections' = [connections EXCEPT ![s] =
                               [Disconnected(@) EXCEPT !.errors = @ + 1]]
    /\ UNCHANGED << gameVars, botVars, roomsCreated >>

RoomNext == Join \/ Leave \/ SocketClose \/ SocketError

RoomSpec == RoomInit /\ [][RoomNext]_vars

---------------------------------------------------------------------------
(* C38: each departure is reported once. For every room and player id, the   *)
(* player_left messages that reached somebody are no more than the joins     *)
(* under that id in that room, whatever 'leave' messages, closes and errors  *)
(* occurred on the connections.                                              *)

Reports(type, roomId, id) ==
    { i \in DOMAIN outbox : /\ outbox[i].type = type
                            /\ outbox[i].roomId = roomId
                            /\ outbox[i].playerId = id }

C38_EachDepartureReportedOnce ==
    \A roomId \in 1..roomsCreated, id \in MessageIds :
        Cardinality({ i \in Reports("player_left", roomId, id) : outbox[i].to # {} })
            <= Cardinality(Reports("room_joined", roomId, id))

---------------------------------------------------------------------------
(* C39: a room lives exactly as long as it has connected members. A room is  *)
(* in the rooms map while an open socket that joined it has not left it, and *)
(* it is out of the map once every socket that joined it has closed.         *)

JoinedBy(roomId) == { s \in Sockets : \E p \in MessageIds : << roomId, p >> \in connections[s].joined }
MembersOf(roomId) ==
    { s \in Sockets : /\ connections[s].readyState = "OPEN"
                      /\ \E p \in MessageIds : << roomId, p >> \in connections[s].member }

C39_RoomLivesWithItsMembers ==
    \A roomId \in 1..roomsCreated :
        /\ MembersOf(roomId) # {} => roomId \in DOMAIN rooms
        /\ (\A s \in JoinedBy(roomId) : connections[s].readyState = "CLOSED")
              => roomId \notin DOMAIN rooms
=============================================================================
